---- MODULE Spec2Model ----
(***************************************************************************)
(* A model of the Forsp interpreter (package forsp, src/forsp/forsp.go)    *)
(* and of the way its driver uses it (src/forsp.go).                       *)
(*                                                                         *)
(* Objects live in a heap: heap[i] is the Obj allocated i-th, and the      *)
(* index i is the pointer *Obj.  The Go nil pointer is NULL.  The heap     *)
(* only grows (Go's garbage collector never changes what a live pointer    *)
(* refers to), so an object keeps its index for ever.                      *)
(*                                                                         *)
(* Texts (the input buffer, the text of an atom, printed output) are       *)
(* sequences of one-character strings.                                     *)
(*                                                                         *)
(* Every method of Forsp is an operator from a machine state s to the      *)
(* machine state after the call:                                           *)
(*   s.f      the Forsp struct (its fields, by their names),               *)
(*   s.heap   the objects,                                                 *)
(*   s.ret    the value the call returned,                                 *)
(*   s.env    the cell a primitive receives as its env **Obj,              *)
(*   s.fault  the panic message once a call panicked (NoFault before),     *)
(*   s.out    what was written to standard output,                         *)
(*   s.done   the driver's termination flag (set by the bye primitive).    *)
(* A panic unwinds the whole call chain: an operator applied to a state    *)
(* that already holds a fault returns it unchanged, with every effect that *)
(* happened before the panic kept.                                         *)
(***************************************************************************)
EXTENDS Integers, Sequences, FiniteSets

VARIABLES f, heap, frames, obj, fault, out, done, log, lines

vars == <<f, heap, frames, obj, fault, out, done, log, lines>>

(***************************************************************************)
(* Bounds of the model.                                                    *)
(***************************************************************************)
\* Width of a Number in bits.  The program's Number is an int64; the model
\* keeps two's-complement wrapping at this narrower width.
IntBits == 8

NULL == 0
NoFault == "none"

TagNil == 0
TagAtom == 1
TagNumber == 2
TagPair == 3
TagClosure == 4
TagPrimitive == 5

(***************************************************************************)
(* Numbers: int64 arithmetic, at IntBits bits.                             *)
(***************************************************************************)
Pow2(n) == 2 ^ n
MinInt == -Pow2(IntBits - 1)
MaxInt == Pow2(IntBits - 1) - 1
\* The value an integer x has once stored in a Number (wraps on overflow).
Wrap(x) == ((x + Pow2(IntBits - 1)) % Pow2(IntBits)) - Pow2(IntBits - 1)
\* The bits of a Number read as an unsigned integer.
Unsigned(x) == x % Pow2(IntBits)

RECURSIVE BitAnd(_, _, _)
\* a & b on the low n bits of two unsigned integers.
BitAnd(a, b, n) ==
    IF n = 0 THEN 0
    ELSE (IF a % 2 = 1 /\ b % 2 = 1 THEN 1 ELSE 0)
         + 2 * BitAnd(a \div 2, b \div 2, n - 1)

\* Go's a & b and ^a on int64.
AndInt(a, b) == Wrap(BitAnd(Unsigned(a), Unsigned(b), IntBits))
NotInt(a) == -a - 1

\* uint(b): a negative int64 converts to a value of at least 2^63, which as
\* a shift count is at least the width.
ShiftCount(b) == IF b < 0 \/ b >= IntBits THEN IntBits ELSE b
\* Go's a << n on int64: bits shifted out are lost, zeros enter at the right.
GoLsh(a, b) == IF ShiftCount(b) = IntBits THEN 0 ELSE Wrap(a * Pow2(ShiftCount(b)))
\* GoRsh shifting the bit pattern, zeros entering at the left.
GoRshLogical(a, b) ==
    IF ShiftCount(b) = IntBits THEN 0
    ELSE Wrap(Unsigned(a) \div Pow2(ShiftCount(b)))

\* Go's a >> n on int64 (a signed operand): an arithmetic shift, copies of
\* the sign bit enter at the left.
GoRsh(a, b) ==
    IF ShiftCount(b) = IntBits THEN (IF a < 0 THEN -1 ELSE 0)
    ELSE a \div Pow2(ShiftCount(b))

(***************************************************************************)
(* Characters.                                                             *)
(***************************************************************************)
\* What peek() returns at the end of the input (the byte 0).
NUL == "NUL"
Digits == <<"0", "1", "2", "3", "4", "5", "6", "7", "8", "9">>
IsDigit(c) == \E i \in 1..10 : Digits[i] = c
DigitVal(c) == (CHOOSE i \in 1..10 : Digits[i] = c) - 1

isWhite(c) == c = " " \/ c = "\t" \/ c = "\n"
isDirective(c) == c = "'" \/ c = "^" \/ c = "$"
isPunctuation(c) ==
    c = NUL \/ isWhite(c) \/ isDirective(c) \/ c = "(" \/ c = ")" \/ c = ";"

(***************************************************************************)
(* Objects.                                                                *)
(***************************************************************************)
\* One Obj: the tag and the payload of each variant (NULL or the zero value
\* where the embedded pointer is nil).  payload is the address the embedded
\* pointer holds; every constructor allocates a fresh one.
MkObj(tag, atom, num, a, d, body, env, prim, payload) ==
    [Tag |-> tag, Atom |-> atom, Number |-> num, car |-> a, cdr |-> d,
     body |-> body, env |-> env, Primitive |-> prim, payload |-> payload]

Alloc(s, o) ==
    [s EXCEPT !.heap = Append(@, [o EXCEPT !.payload = Len(s.heap) + 1]),
              !.ret = Len(s.heap) + 1]

NewNil(s) == Alloc(s, MkObj(TagNil, <<>>, 0, NULL, NULL, NULL, NULL, "", NULL))
NewAtom(s, str) == Alloc(s, MkObj(TagAtom, str, 0, NULL, NULL, NULL, NULL, "", NULL))
NewNumber(s, n) == Alloc(s, MkObj(TagNumber, <<>>, n, NULL, NULL, NULL, NULL, "", NULL))
NewPair(s, a, d) == Alloc(s, MkObj(TagPair, <<>>, 0, a, d, NULL, NULL, "", NULL))
NewClosure(s, body, env) ==
    Alloc(s, MkObj(TagClosure, <<>>, 0, NULL, NULL, body, env, "", NULL))
NewPrimitive(s, fn) ==
    Alloc(s, MkObj(TagPrimitive, <<>>, 0, NULL, NULL, NULL, NULL, fn, NULL))

\* The call m, then the rest k of the function body applied to the machine
\* state the call leaves.
Bind(m, k(_)) == CHOOSE r \in {k(v) : v \in {m}} : TRUE

RECURSIVE Loop(_, _, _)
\* A loop, run from the loop state c: iter(c) is c after one more iteration,
\* and is c itself once the loop has exited (c.done).  Loop applies iter 2^k
\* times, in k nested evaluations.
Loop(iter(_), c, k) ==
    IF k = 0 THEN iter(c)
    ELSE CHOOSE r \in {Loop(iter, v, k - 1) : v \in {Loop(iter, c, k - 1)}} : TRUE

RECURSIVE Log2(_)
\* The least k with 2^k > n.
Log2(n) == IF n = 0 THEN 0 ELSE 1 + Log2(n \div 2)

\* No list is longer than the heap that holds its Pairs.
ListLoop(iter(_), c) == Loop(iter, c, Log2(Len(c.s.heap)))

Failed(s) == s.fault # NoFault
\* panic(msg): the first panic is the one that aborts the program.
fail(s, msg) == IF Failed(s) THEN s ELSE [s EXCEPT !.fault = msg]

is(s, v, t) == s.heap[v].Tag = t

\* car(obj), cdr(obj): the checked accessors.
car(s, v) ==
    IF Failed(s) THEN s
    ELSE IF v = NULL THEN fail(s, "nil pointer dereference")
    ELSE IF ~is(s, v, TagPair) THEN fail(s, "FAIL: Expected Pair to apply car() function")
    ELSE [s EXCEPT !.ret = s.heap[v].car]
cdr(s, v) ==
    IF Failed(s) THEN s
    ELSE IF v = NULL THEN fail(s, "nil pointer dereference")
    ELSE IF ~is(s, v, TagPair) THEN fail(s, "FAIL: Expected Pair to apply cdr() function")
    ELSE [s EXCEPT !.ret = s.heap[v].cdr]

\* DerefEqual comparing what the embedded pointers refer to.
DerefEqualContents(s, a, b) ==
    /\ s.heap[a].Tag = s.heap[b].Tag
    /\ s.heap[a].Atom = s.heap[b].Atom
    /\ s.heap[a].Number = s.heap[b].Number
    /\ s.heap[a].car = s.heap[b].car
    /\ s.heap[a].cdr = s.heap[b].cdr
    /\ s.heap[a].body = s.heap[b].body
    /\ s.heap[a].env = s.heap[b].env
    /\ s.heap[a].Primitive = s.heap[b].Primitive

\* *a == *b on two Obj structs: the tags and the embedded pointers agree.
DerefEqual(s, a, b) ==
    /\ s.heap[a].Tag = s.heap[b].Tag
    /\ s.heap[a].payload = s.heap[b].payload

ObjEqual(s, a, b) ==
    \/ DerefEqual(s, a, b)
    \/ (is(s, a, TagNumber) /\ is(s, b, TagNumber)
        /\ s.heap[a].Number = s.heap[b].Number)

ObjToInt64(s, a) == IF is(s, a, TagNumber) THEN s.heap[a].Number ELSE 0
(***************************************************************************)
(* The interned-atom table.                                                *)
(***************************************************************************)
\* internIter comparing the lengths of the texts only.
internIterLengthOnly(c) ==
    IF c.done THEN c
    ELSE IF c.list = c.s.f.nil THEN [c EXCEPT !.s.ret = NULL, !.done = TRUE]
    ELSE IF Len(c.atomBuf) = Len(c.s.heap[c.s.heap[c.list].car].Atom)
      THEN [c EXCEPT !.s.ret = c.s.heap[c.list].car, !.done = TRUE]
    ELSE [c EXCEPT !.list = c.s.heap[c.list].cdr]

\* One iteration of the loop of intern, c.list the rest of the table: the
\* loop exits with the atom whose text is atomBuf in c.s.ret, or with NULL
\* there when the table holds none.
internIter(c) ==
    IF c.done THEN c
    ELSE IF c.list = c.s.f.nil THEN [c EXCEPT !.s.ret = NULL, !.done = TRUE]
    ELSE IF ~is(c.s, c.list, TagPair)
      THEN [c EXCEPT !.s = fail(@, "ASSERT: interned_atoms must be Pairs"),
                     !.done = TRUE]
    ELSE IF ~is(c.s, c.s.heap[c.list].car, TagAtom)
      THEN [c EXCEPT !.s = fail(@, "ASSERT: interned_atoms.car must be an Atom"),
                     !.done = TRUE]
    ELSE IF Len(c.atomBuf) = Len(c.s.heap[c.s.heap[c.list].car].Atom)
            /\ c.atomBuf = c.s.heap[c.s.heap[c.list].car].Atom
      THEN [c EXCEPT !.s.ret = c.s.heap[c.list].car, !.done = TRUE]
    ELSE [c EXCEPT !.list = c.s.heap[c.list].cdr]

\* The loop of intern.
internScan(s, list, atomBuf) ==
    ListLoop(internIter,
             [s |-> s, list |-> list, atomBuf |-> atomBuf, done |-> FALSE]).s

\* The tail of intern: not found, create a new atom and push it on the
\* front of the list.
internNew(s, atomBuf) ==
    Bind(NewAtom(s, atomBuf), LAMBDA s1 :
    Bind(NewPair(s1, s1.ret, s1.f.internedAtoms), LAMBDA s2 :
    [s2 EXCEPT !.f.internedAtoms = s2.ret, !.ret = s1.ret]))

intern(s, atomBuf) ==
    IF Failed(s) THEN s
    ELSE Bind(internScan(s, s.f.internedAtoms, atomBuf), LAMBDA r :
         IF Failed(r) \/ r.ret # NULL THEN r ELSE internNew(s, atomBuf))

(***************************************************************************)
(* The reader.                                                             *)
(***************************************************************************)
peek(s) == IF s.f.pos = Len(s.f.input) THEN NUL ELSE s.f.input[s.f.pos + 1]

advance(s) ==
    IF Failed(s) THEN s
    ELSE IF peek(s) = NUL THEN fail(s, "ASSERT: cannot advance further")
    ELSE [s EXCEPT !.f.pos = @ + 1]

RECURSIVE skipComment(_)
\* The loop that skips a comment, the ';' already consumed: up to and
\* including the newline, or to the end of the input.
skipComment(s) ==
    IF peek(s) = NUL THEN s
    ELSE IF peek(s) = "\n" THEN advance(s)
    ELSE skipComment(advance(s))

RECURSIVE skipWhiteAndComments(_)
skipWhiteAndComments(s) ==
    IF Failed(s) \/ peek(s) = NUL THEN s
    ELSE IF isWhite(peek(s)) THEN skipWhiteAndComments(advance(s))
    ELSE IF peek(s) = ";" THEN skipWhiteAndComments(skipComment(advance(s)))
    ELSE s

RECURSIVE DecimalValue(_)
\* The number a sequence of digits denotes.
DecimalValue(ds) ==
    IF ds = <<>> THEN 0
    ELSE 10 * DecimalValue(SubSeq(ds, 1, Len(ds) - 1)) + DigitVal(ds[Len(ds)])

\* The digits of a text that has the syntax of a base-10 integer (an
\* optional sign, then one digit or more), <<>> for any other text.
IntDigits(str) ==
    LET ds == IF str # <<>> /\ (str[1] = "+" \/ str[1] = "-") THEN Tail(str) ELSE str
    IN IF \A i \in 1..Len(ds) : IsDigit(ds[i]) THEN ds ELSE <<>>

\* strconv.ParseInt(str, 10, 64): the value and whether the text denotes
\* one; a value outside the Number range is an error too.
parseInt64(str) ==
    LET ds == IntDigits(str)
        n == IF str[1] = "-" THEN -DecimalValue(ds) ELSE DecimalValue(ds)
    IN IF ds # <<>> /\ n >= MinInt /\ n <= MaxInt
         THEN [ok |-> TRUE, n |-> n]
         ELSE [ok |-> FALSE, n |-> 0]

RECURSIVE scanScalar(_)
\* The loop of readScalar: advance to the next punctuation character.
scanScalar(s) == IF isPunctuation(peek(s)) THEN s ELSE scanScalar(advance(s))

\* The tail of readScalar: the token is input[start:pos].
scalarOf(s, str) ==
    Bind(parseInt64(str), LAMBDA p :
    IF p.ok THEN NewNumber(s, p.n) ELSE intern(s, str))

readScalar(s) ==
    IF Failed(s) THEN s
    ELSE Bind(scanScalar(s), LAMBDA s1 :
         scalarOf(s1, SubSeq(s1.f.input, s.f.pos + 1, s1.f.pos)))

\* readDirective with the scalar queued behind the push or pop atom.
readDirectiveMisordered(s, last) ==
    Bind(advance(s), LAMBDA s0 :
    Bind(readScalar(s0), LAMBDA s1 :
    Bind(NewPair(s1, s1.ret, NULL), LAMBDA s2 :
    Bind(NewPair(s2, last, s2.ret), LAMBDA s3 :
    Bind(NewPair(s3, s3.f.AtomQuote, s3.ret), LAMBDA s4 :
    [s4 EXCEPT !.f.readStack = s4.ret])))))

\* The body shared by the '^' and '$' cases of Read, up to the assignment
\* of f.readStack; last is f.AtomPush or f.AtomPop.
readDirective(s, last) ==
    Bind(advance(s), LAMBDA s0 :
    Bind(NewPair(s0, last, NULL), LAMBDA s1 :
    Bind(readScalar(s1), LAMBDA s2 :
    Bind(NewPair(s2, s2.ret, s1.ret), LAMBDA s3 :
    Bind(NewPair(s3, s3.f.AtomQuote, s3.ret), LAMBDA s4 :
    [s4 EXCEPT !.f.readStack = s4.ret])))))

\* The first lines of Read: an object is waiting in the read-ahead queue.
readQueued(s) ==
    Bind(cdr(s, s.f.readStack), LAMBDA s1 :
    IF Failed(s1) THEN s1
    ELSE car([s1 EXCEPT !.f.readStack = s1.ret], s.f.readStack))

RECURSIVE Read(_), readList(_), listIter(_), listClose(_, _), listRead(_, _)
\* The switch of Read, s the machine after the whitespace was skipped.
readSwitch(s) ==
    CASE peek(s) = NUL -> fail(s, "FAIL: End of input: could not read()")
      [] peek(s) = "'" -> [advance(s) EXCEPT !.ret = s.f.AtomQuote]
      [] peek(s) = "^" -> Read(readDirective(s, s.f.AtomPush))
      [] peek(s) = "$" -> Read(readDirective(s, s.f.AtomPop))
      [] peek(s) = "(" -> readList(advance(s))
      [] OTHER -> readScalar(s)

Read(s) ==
    IF Failed(s) THEN s
    ELSE IF s.f.readStack # NULL THEN readQueued(s)
    ELSE readSwitch(skipWhiteAndComments(s))

\* A step of readList that tests for the closing parenthesis whatever the
\* read-ahead queue holds.
listIterCloseFirst(c) ==
    IF c.done THEN c
    ELSE IF Failed(c.s) THEN [c EXCEPT !.done = TRUE]
    ELSE listClose(skipWhiteAndComments(c.s), c.items)

\* One step of readList, c.items the objects read so far: the test for the
\* closing parenthesis, then first := f.Read().
listIter(c) ==
    IF c.done THEN c
    ELSE IF Failed(c.s) THEN [c EXCEPT !.done = TRUE]
    ELSE IF c.s.f.readStack # NULL THEN listRead(Read(c.s), c.items)
    ELSE listClose(skipWhiteAndComments(c.s), c.items)

\* The test for ')' of readList, s the machine after the whitespace.
listClose(s, items) ==
    IF peek(s) = ")"
      THEN [s |-> [advance(s) EXCEPT !.ret = s.f.nil], items |-> items, done |-> TRUE]
    ELSE listRead(Read(s), items)

\* s the machine after first := f.Read().
listRead(s, items) == [s |-> s, items |-> Append(items, s.ret), done |-> FALSE]

RECURSIVE listPairs(_, _)
\* The returns of the nested readList calls, innermost first: each builds
\* NewPair(first, second); s.ret is second.
listPairs(s, items) ==
    IF Failed(s) \/ items = <<>> THEN s
    ELSE listPairs(NewPair(s, items[Len(items)], s.ret),
                   SubSeq(items, 1, Len(items) - 1))

\* readList calls itself once for each object of the list: the objects are
\* read left to right, then the Pairs are built right to left.
readListEnd(c) == listPairs(c.s, c.items)

readList(s) ==
    readListEnd(Loop(listIter, [s |-> s, items |-> <<>>, done |-> FALSE],
                     Log2(Len(s.f.input) + 3)))

(***************************************************************************)
(* The printer.  Printing appends to the standard output s.out.            *)
(***************************************************************************)
emit(s, text) == [s EXCEPT !.out = @ \o text]

RECURSIVE FormatNat(_)
FormatNat(n) ==
    IF n < 10 THEN <<Digits[n + 1]>> ELSE FormatNat(n \div 10) \o <<Digits[(n % 10) + 1]>>
\* A rendering of a Number without its sign.
FormatIntUnsigned(n) == IF n < 0 THEN FormatNat(-n) ELSE FormatNat(n)
\* strconv.FormatInt(n, 10), which fmt.Print applies to a Number.
FormatInt(n) == IF n < 0 THEN <<"-">> \o FormatNat(-n) ELSE FormatNat(n)
\* The %p rendering of a pointer: an address, unique to the object.
FormatPtr(p) == <<"0", "x">> \o FormatNat(p)

RECURSIVE PrintRecurse(_, _), printListTail(_, _), printTailIter(_)
\* One call of printListTail, c.v its argument; the call for the cdr is the
\* next iteration.
printTailIter(c) ==
    IF c.done THEN c
    ELSE IF c.v = c.s.f.nil
      THEN [c EXCEPT !.s = emit(@, <<")">>), !.done = TRUE]
    ELSE IF is(c.s, c.v, TagPair)
      THEN [c EXCEPT !.s = PrintRecurse(emit(@, <<" ">>), c.s.heap[c.v].car),
                     !.v = c.s.heap[c.v].cdr]
    ELSE [c EXCEPT !.s = emit(PrintRecurse(emit(@, <<" ", ".", " ">>), c.v), <<")">>),
                   !.done = TRUE]

printListTail(s, v) == ListLoop(printTailIter, [s |-> s, v |-> v, done |-> FALSE]).s

PrintRecurse(s, v) ==
    IF v = s.f.nil THEN emit(s, <<"(", ")">>)
    ELSE CASE is(s, v, TagNil) -> s
           [] is(s, v, TagAtom) -> emit(s, s.heap[v].Atom)
           [] is(s, v, TagNumber) -> emit(s, FormatInt(s.heap[v].Number))
           [] is(s, v, TagPair) ->
                printListTail(PrintRecurse(emit(s, <<"(">>), s.heap[v].car), s.heap[v].cdr)
           [] is(s, v, TagClosure) ->
                emit(PrintRecurse(emit(s, <<"C", "L", "O", "S", "U", "R", "E", "<">>), s.heap[v].body),
                     <<",", " ">> \o FormatPtr(s.heap[v].env) \o <<">">>)
           [] is(s, v, TagPrimitive) ->
                emit(s, <<"P", "R", "I", "M", "<">> \o FormatPtr(s.heap[v].payload) \o <<">">>)

PrintObj(s, v) ==
    IF Failed(s) THEN s
    ELSE emit(PrintRecurse(s, v), <<"\n">>)

(***************************************************************************)
(* Environment and stack.                                                  *)
(***************************************************************************)
\* envIter returning Nil for a key the list does not bind.
envIterNilOnMiss(c) ==
    IF c.done THEN c
    ELSE IF c.v = c.s.f.nil THEN [c EXCEPT !.s.ret = c.s.f.nil, !.done = TRUE]
    ELSE IF c.key = c.s.heap[c.s.heap[c.v].car].car
      THEN [c EXCEPT !.s.ret = c.s.heap[c.s.heap[c.v].car].cdr, !.done = TRUE]
    ELSE [c EXCEPT !.v = c.s.heap[c.v].cdr]

\* One iteration of the loop of EnvFind, c.v the rest of the list.  car and
\* cdr fail on an entry or a binding that is not a Pair.
envIter(c) ==
    IF c.done THEN c
    ELSE IF c.v = c.s.f.nil
      THEN [c EXCEPT !.s = fail(@, "FAIL: Failed to find key in environment"),
                     !.done = TRUE]
    ELSE IF ~is(c.s, c.v, TagPair) \/ ~is(c.s, c.s.heap[c.v].car, TagPair)
      THEN [c EXCEPT !.s = fail(@, "FAIL: Expected Pair to apply car() function"),
                     !.done = TRUE]
    ELSE IF c.key = c.s.heap[c.s.heap[c.v].car].car
            \/ DerefEqual(c.s, c.key, c.s.heap[c.s.heap[c.v].car].car)
      THEN [c EXCEPT !.s.ret = c.s.heap[c.s.heap[c.v].car].cdr, !.done = TRUE]
    ELSE [c EXCEPT !.v = c.s.heap[c.v].cdr]

\* The loop of EnvFind.
envScan(s, v, key) ==
    ListLoop(envIter, [s |-> s, v |-> v, key |-> key, done |-> FALSE]).s

EnvFind(s, env, key) ==
    IF Failed(s) THEN s
    ELSE IF ~is(s, key, TagAtom)
      THEN fail(s, "FAIL: Expected 'key' to be an Atom in env_find()")
    ELSE envScan(s, env, key)

\* EnvDefine with the binding built as (val . key).
EnvDefineSwapped(s, env, key, val) ==
    IF Failed(s) THEN s
    ELSE Bind(NewPair(s, val, key), LAMBDA s1 : NewPair(s1, s1.ret, env))

EnvDefine(s, env, key, val) ==
    IF Failed(s) THEN s
    ELSE Bind(NewPair(s, key, val), LAMBDA s1 : NewPair(s1, s1.ret, env))

EnvDefinePrim(s, env, name, fn) ==
    Bind(intern(s, name), LAMBDA s1 :
    IF Failed(s1) THEN s1
    ELSE Bind(NewPrimitive(s1, fn), LAMBDA s2 : EnvDefine(s2, env, s1.ret, s2.ret)))

\* Push storing the value into the top cell of a non-empty stack.
PushInPlace(s, v) ==
    IF Failed(s) THEN s
    ELSE IF s.f.Stack = s.f.nil
      THEN Bind(NewPair(s, v, s.f.Stack), LAMBDA s1 : [s1 EXCEPT !.f.Stack = s1.ret])
    ELSE [s EXCEPT !.heap[s.f.Stack].car = v]

Push(s, v) ==
    IF Failed(s) THEN s
    ELSE Bind(NewPair(s, v, s.f.Stack), LAMBDA s1 : [s1 EXCEPT !.f.Stack = s1.ret])

\* Pop returning Nil from an empty stack instead of failing.
PopUnchecked(s) ==
    IF Failed(s) THEN s
    ELSE IF s.f.Stack = s.f.nil THEN [s EXCEPT !.ret = s.f.nil]
    ELSE Bind(car(s, s.f.Stack), LAMBDA s1 :
         Bind(cdr(s1, s1.f.Stack), LAMBDA s2 :
         IF Failed(s2) THEN s2 ELSE [s2 EXCEPT !.f.Stack = s2.ret, !.ret = s1.ret]))

\* tryPop and Pop: the front element, or the stack-underflow failure.
Pop(s) ==
    IF Failed(s) THEN s
    ELSE IF s.f.Stack = s.f.nil THEN fail(s, "FAIL: Value Stack Underflow")
    ELSE Bind(car(s, s.f.Stack), LAMBDA s1 :
         Bind(cdr(s1, s1.f.Stack), LAMBDA s2 :
         IF Failed(s2) THEN s2 ELSE [s2 EXCEPT !.f.Stack = s2.ret, !.ret = s1.ret]))

(***************************************************************************)
(* The primitives.  s.env is the cell the primitive receives (env **Obj).  *)
(***************************************************************************)
primPush(s) ==
    Bind(Pop(s), LAMBDA s1 :
    Bind(EnvFind(s1, s1.env, s1.ret), LAMBDA s2 :
    IF Failed(s2) THEN s2 ELSE Push(s2, s2.ret)))

\* primPop taking the value from the stack top and the key beneath it.
primPopSwapped(s) ==
    Bind(Pop(s), LAMBDA sv :
    Bind(Pop(sv), LAMBDA sk :
    IF Failed(sk) THEN sk
    ELSE Bind(EnvDefine(sk, sk.env, sk.ret, sv.ret), LAMBDA s3 :
         [s3 EXCEPT !.env = s3.ret])))

primPop(s) ==
    Bind(Pop(s), LAMBDA sk :
    Bind(Pop(sk), LAMBDA sv :
    IF Failed(sv) THEN sv
    ELSE Bind(EnvDefine(sv, sv.env, sk.ret, sv.ret), LAMBDA s3 :
         [s3 EXCEPT !.env = s3.ret])))

primEq(s) ==
    Bind(Pop(s), LAMBDA s1 :
    Bind(Pop(s1), LAMBDA s2 :
    IF Failed(s2) THEN s2
    ELSE IF ObjEqual(s2, s1.ret, s2.ret) THEN Push(s2, s2.f.AtomTrue)
    ELSE Push(s2, s2.f.nil)))

\* primCons with the two operands of NewPair exchanged.
primConsSwapped(s) ==
    Bind(Pop(s), LAMBDA sa :
    Bind(Pop(sa), LAMBDA sb :
    IF Failed(sb) THEN sb
    ELSE Bind(NewPair(sb, sb.ret, sa.ret), LAMBDA s3 : Push(s3, s3.ret))))

primCons(s) ==
    Bind(Pop(s), LAMBDA sa :
    Bind(Pop(sa), LAMBDA sb :
    IF Failed(sb) THEN sb
    ELSE Bind(NewPair(sb, sa.ret, sb.ret), LAMBDA s3 : Push(s3, s3.ret))))

primCar(s) ==
    Bind(Pop(s), LAMBDA s1 :
    Bind(car(s1, s1.ret), LAMBDA s2 :
    IF Failed(s2) THEN s2 ELSE Push(s2, s2.ret)))

primCdr(s) ==
    Bind(Pop(s), LAMBDA s1 :
    Bind(cdr(s1, s1.ret), LAMBDA s2 :
    IF Failed(s2) THEN s2 ELSE Push(s2, s2.ret)))

\* The body of the if of primCswap.
cswapSwap(s) ==
    Bind(Pop(s), LAMBDA sa :
    Bind(Pop(sa), LAMBDA sb :
    IF Failed(sb) THEN sb
    ELSE Bind(Push(sb, sa.ret), LAMBDA s3 : Push(s3, sb.ret))))

\* primCswap exchanging on every condition other than Nil.
primCswapTruthy(s) ==
    Bind(Pop(s), LAMBDA s1 :
    IF Failed(s1) THEN s1
    ELSE IF s1.ret # s1.f.nil THEN cswapSwap(s1)
    ELSE s1)

primCswap(s) ==
    Bind(Pop(s), LAMBDA s1 :
    IF Failed(s1) THEN s1
    ELSE IF s1.ret = s1.f.AtomTrue THEN cswapSwap(s1)
    ELSE s1)

primTag(s) ==
    Bind(Pop(s), LAMBDA s1 :
    IF Failed(s1) THEN s1
    ELSE Bind(NewNumber(s1, s1.heap[s1.ret].Tag), LAMBDA s2 : Push(s2, s2.ret)))

primRead(s) ==
    Bind(Read(s), LAMBDA s1 : IF Failed(s1) THEN s1 ELSE Push(s1, s1.ret))

primPrint(s) ==
    Bind(Pop(s), LAMBDA s1 : IF Failed(s1) THEN s1 ELSE PrintObj(s1, s1.ret))

primStack(s) == Push(s, s.f.Stack)
primEnv(s) == Push(s, s.env)

\* PopOperands with a popped first and b second.
PopOperandsSwapped(s) ==
    Bind(Pop(s), LAMBDA sa :
    Bind(Pop(sa), LAMBDA sb :
    [s |-> sb,
     a |-> IF Failed(sb) THEN 0 ELSE ObjToInt64(sb, sa.ret),
     b |-> IF Failed(sb) THEN 0 ELSE ObjToInt64(sb, sb.ret)]))

\* b, a := f.Pop(), f.Pop() followed by the two ObjToInt64 calls, as each of
\* the five arithmetic primitives starts: b is popped first, then a.
PopOperands(s) ==
    Bind(Pop(s), LAMBDA sb :
    Bind(Pop(sb), LAMBDA sa :
    [s |-> sa,
     a |-> IF Failed(sa) THEN 0 ELSE ObjToInt64(sa, sa.ret),
     b |-> IF Failed(sa) THEN 0 ELSE ObjToInt64(sa, sb.ret)]))

\* f.Push(NewNumber(n)), as each of them ends.
PushNumber(s, n) ==
    IF Failed(s) THEN s ELSE Bind(NewNumber(s, n), LAMBDA s1 : Push(s1, s1.ret))

SubOp(a, b) == Wrap(a - b)
MulOp(a, b) == Wrap(a * b)
NandOp(a, b) == NotInt(AndInt(a, b))
LshOp(a, b) == GoLsh(a, b)
RshOp(a, b) == GoRsh(a, b)

primSub(s) == Bind(PopOperands(s), LAMBDA p : PushNumber(p.s, SubOp(p.a, p.b)))
primMul(s) == Bind(PopOperands(s), LAMBDA p : PushNumber(p.s, MulOp(p.a, p.b)))
primNand(s) == Bind(PopOperands(s), LAMBDA p : PushNumber(p.s, NandOp(p.a, p.b)))
primLsh(s) == Bind(PopOperands(s), LAMBDA p : PushNumber(p.s, LshOp(p.a, p.b)))
primRsh(s) == Bind(PopOperands(s), LAMBDA p : PushNumber(p.s, RshOp(p.a, p.b)))

\* The driver's primitive (src/forsp.go): sets its termination flag.
primBye(s) == [s EXCEPT !.done = TRUE]

\* (*val.Primitive)(env): the call of the host function a Primitive holds.
CallPrimitive(s, fn) ==
    IF Failed(s) THEN s
    ELSE CASE fn = "primPush" -> primPush(s)
           [] fn = "primPop" -> primPop(s)
           [] fn = "primCons" -> primCons(s)
           [] fn = "primCar" -> primCar(s)
           [] fn = "primCdr" -> primCdr(s)
           [] fn = "primEq" -> primEq(s)
           [] fn = "primCswap" -> primCswap(s)
           [] fn = "primTag" -> primTag(s)
           [] fn = "primRead" -> primRead(s)
           [] fn = "primPrint" -> primPrint(s)
           [] fn = "primStack" -> primStack(s)
           [] fn = "primEnv" -> primEnv(s)
           [] fn = "primSub" -> primSub(s)
           [] fn = "primMul" -> primMul(s)
           [] fn = "primNand" -> primNand(s)
           [] fn = "primLsh" -> primLsh(s)
           [] fn = "primRsh" -> primRsh(s)
           [] fn = "primBye" -> primBye(s)

(***************************************************************************)
(* Construction.                                                           *)
(***************************************************************************)
\* The zero value of the Forsp struct and of the machine around it.
Zero ==
    [f |-> [nil |-> NULL, readStack |-> NULL, internedAtoms |-> NULL,
            AtomTrue |-> NULL, AtomQuote |-> NULL, AtomPush |-> NULL,
            AtomPop |-> NULL, Stack |-> NULL, Env |-> NULL,
            input |-> <<>>, pos |-> 0],
     heap |-> <<>>, ret |-> NULL, env |-> NULL, fault |-> NoFault,
     out |-> <<>>, done |-> FALSE]

\* The name -> operation table New installs, in its order.
Primitives ==
    << <<<<"p", "u", "s", "h">>, "primPush">>, <<<<"p", "o", "p">>, "primPop">>,
       <<<<"c", "o", "n", "s">>, "primCons">>, <<<<"c", "a", "r">>, "primCar">>,
       <<<<"c", "d", "r">>, "primCdr">>, <<<<"e", "q">>, "primEq">>,
       <<<<"c", "s", "w", "a", "p">>, "primCswap">>, <<<<"t", "a", "g">>, "primTag">>,
       <<<<"r", "e", "a", "d">>, "primRead">>, <<<<"p", "r", "i", "n", "t">>, "primPrint">>,
       <<<<"s", "t", "a", "c", "k">>, "primStack">>, <<<<"e", "n", "v">>, "primEnv">>,
       <<<<"-">>, "primSub">>, <<<<"*">>, "primMul">>,
       <<<<"n", "a", "n", "d">>, "primNand">>, <<<<"<", "<">>, "primLsh">>,
       <<<<">", ">">>, "primRsh">> >>

\* env = f.EnvDefinePrim(env, name, fn) for the next entry of the table,
\* c.n entries done and the environment built so far in c.s.ret.
definePrimIter(c) ==
    IF c.n = Len(Primitives) THEN c
    ELSE [s |-> EnvDefinePrim(c.s, c.s.ret, Primitives[c.n + 1][1],
                              Primitives[c.n + 1][2]),
          n |-> c.n + 1]

\* The calls of EnvDefinePrim in New, for the whole table.
DefinePrims(s) == Loop(definePrimIter, [s |-> s, n |-> 0], Log2(Len(Primitives))).s

\* forsp.New().  optionalUnsafe returns env unchanged unless the program is
\* built with the unsafe tag.
New ==
    Bind(NewNil(Zero), LAMBDA s0 :
    Bind(intern([s0 EXCEPT !.f.nil = s0.ret, !.f.internedAtoms = s0.ret], <<"t">>),
         LAMBDA s2 :
    Bind(intern([s2 EXCEPT !.f.AtomTrue = s2.ret], <<"q", "u", "o", "t", "e">>), LAMBDA s3 :
    Bind(intern([s3 EXCEPT !.f.AtomQuote = s3.ret], <<"p", "u", "s", "h">>), LAMBDA s4 :
    Bind(intern([s4 EXCEPT !.f.AtomPush = s4.ret], <<"p", "o", "p">>), LAMBDA s5 :
    Bind(DefinePrims([s5 EXCEPT !.f.AtomPop = s5.ret, !.f.Stack = s5.f.nil,
                                !.ret = s5.f.nil]), LAMBDA s7 :
    [s7 EXCEPT !.f.Env = s7.ret]))))))

\* New() of the driver (src/forsp.go): the interpreter plus its bye
\* primitive.
MainNew ==
    Bind(New, LAMBDA s0 :
    Bind(EnvDefinePrim(s0, s0.f.Env, <<"b", "y", "e">>, "primBye"), LAMBDA s1 :
    [s1 EXCEPT !.f.Env = s1.ret]))

(***************************************************************************)
(* The evaluator.  A running ComputeEnv call is a frame: its local         *)
(* variables comp and env.  frames is the chain of running calls, the      *)
(* innermost last.                                                         *)
(***************************************************************************)
\* enterClosure running the body in the caller's current environment.
enterClosureDynamic(s, val) == [comp |-> s.heap[val].body, env |-> s.env]

\* f.ComputeEnv(val.body, val.env): the frame of the call that runs a
\* Closure.  s.env is the caller's current environment.
enterClosure(s, val) == [comp |-> s.heap[val].body, env |-> s.heap[val].env]

\* The Atom branch of eval: val is the value the atom is bound to.
evalBound(s, val) ==
    IF is(s, val, TagClosure) THEN [s |-> s, call |-> val]
    ELSE IF is(s, val, TagPrimitive)
      THEN [s |-> CallPrimitive(s, s.heap[val].Primitive), call |-> NULL]
    ELSE [s |-> Push(s, val), call |-> NULL]

\* eval creating the Closure of a list with the initial environment.
evalCapturesInitial(s, expr) ==
    IF is(s, expr, TagAtom)
      THEN Bind(EnvFind(s, s.env, expr), LAMBDA s1 :
           IF Failed(s1) THEN [s |-> s1, call |-> NULL] ELSE evalBound(s1, s1.ret))
    ELSE IF is(s, expr, TagNil) \/ is(s, expr, TagPair)
      THEN Bind(NewClosure(s, expr, s.f.Env), LAMBDA s1 :
           [s |-> Push(s1, s1.ret), call |-> NULL])
    ELSE [s |-> Push(s, expr), call |-> NULL]

\* eval(expr, env), env the cell s.env.  The nested ComputeEnv call of a
\* Closure is left to the caller: call is the Closure to run, or NULL.
eval(s, expr) ==
    IF is(s, expr, TagAtom)
      THEN Bind(EnvFind(s, s.env, expr), LAMBDA s1 :
           IF Failed(s1) THEN [s |-> s1, call |-> NULL] ELSE evalBound(s1, s1.ret))
    ELSE IF is(s, expr, TagNil) \/ is(s, expr, TagPair)
      THEN Bind(NewClosure(s, expr, s.env), LAMBDA s1 :
           [s |-> Push(s1, s1.ret), call |-> NULL])
    ELSE [s |-> Push(s, expr), call |-> NULL]

\* quoteStep evaluating the item that follows the quote.
quoteStepEvaluates(s, comp) ==
    IF comp = s.f.nil
      THEN [s |-> fail(s, "FAIL: Expected data following a quote form"),
            comp |-> comp, call |-> NULL]
    ELSE Bind(eval(s, s.heap[comp].car), LAMBDA e :
         [s |-> e.s, comp |-> s.heap[comp].cdr, call |-> e.call])

\* The quote branch of the loop of ComputeEnv; comp is the list after the
\* quote atom.
quoteStep(s, comp) ==
    IF comp = s.f.nil
      THEN [s |-> fail(s, "FAIL: Expected data following a quote form"),
            comp |-> comp, call |-> NULL]
    ELSE Bind(car(s, comp), LAMBDA s1 :
         Bind(Push(s1, s1.ret), LAMBDA s2 :
         Bind(cdr(s2, comp), LAMBDA s3 :
         [s |-> s3, comp |-> s3.ret, call |-> NULL])))

\* The rest of an iteration of ComputeEnv once cmd and the rest of the
\* list are known.
dispatch(s, cmd, rest) ==
    IF cmd = s.f.AtomQuote THEN quoteStep(s, rest)
    ELSE Bind(eval(s, cmd), LAMBDA e : [s |-> e.s, comp |-> rest, call |-> e.call])

\* One iteration of the loop of ComputeEnv(comp, env), env in s.env: the
\* machine afterwards, the rest of the list, and the Closure whose body the
\* iteration runs (NULL when it runs none).
computeStep(s, comp) ==
    Bind(car(s, comp), LAMBDA s1 :
    Bind(cdr(s1, comp), LAMBDA s2 :
    IF Failed(s2) THEN [s |-> s2, comp |-> comp, call |-> NULL]
    ELSE dispatch(s2, s1.ret, s2.ret)))

(***************************************************************************)
(* The state of the program.                                               *)
(***************************************************************************)
\* The machine state of the variables, as the operators take it.
Cur == [f |-> f, heap |-> heap, ret |-> NULL, env |-> NULL, fault |-> fault,
        out |-> out, done |-> done]

Commit(s) ==
    /\ f' = s.f
    /\ heap' = s.heap
    /\ fault' = s.fault
    /\ out' = s.out
    /\ done' = s.done

\* How many input buffers the driver sets, and how many objects it reads
\* from one buffer.
MaxLines == 2
MaxReads == 3

Init ==
    /\ f = MainNew.f
    /\ heap = MainNew.heap
    /\ fault = NoFault
    /\ out = <<>>
    /\ done = FALSE
    /\ frames = <<>>
    /\ obj = NULL
    /\ log = <<>>
    /\ lines = 0

\* No call is running and none has panicked.
Idle == fault = NoFault /\ frames = <<>>

\* SetReader emptying the read-ahead queue as well.
SetReaderClearsQueue(inp) ==
    /\ Idle
    /\ lines < MaxLines
    /\ f' = [f EXCEPT !.input = inp, !.pos = 0, !.readStack = NULL]
    /\ lines' = lines + 1
    /\ log' = <<>>
    /\ UNCHANGED <<heap, frames, obj, fault, out, done>>

\* f.SetReader(r), r a reader over the text inp.
SetReader(inp) ==
    /\ Idle
    /\ lines < MaxLines
    /\ f' = [f EXCEPT !.input = inp, !.pos = 0]
    /\ lines' = lines + 1
    /\ log' = <<>>
    /\ UNCHANGED <<heap, frames, obj, fault, out, done>>

\* obj := f.Read().  log records, for each Read since the last SetReader,
\* what it returned, where it left the cursor and the read-ahead queue, and
\* whether the queue held something when it was called.
ReadCall ==
    /\ Idle
    /\ Len(log) < MaxReads
    /\ \E s \in {Read(Cur)} :
          /\ Commit(s)
          /\ obj' = IF Failed(s) THEN obj ELSE s.ret
          /\ log' = Append(log, [ret |-> IF Failed(s) THEN NULL ELSE s.ret,
                                 pos |-> s.f.pos,
                                 from |-> f.pos,
                                 queued |-> f.readStack # NULL,
                                 readStack |-> s.f.readStack])
    /\ UNCHANGED <<frames, lines>>

\* Compute evaluating obj as one item (eval) instead of running its items.
ComputeCallDeferred ==
    /\ Idle
    /\ obj # NULL
    /\ \E s \in {eval([Cur EXCEPT !.env = f.Env], obj).s} : Commit(s)
    /\ frames' = <<>>
    /\ obj' = NULL
    /\ UNCHANGED <<log, lines>>

\* f.Compute(obj): ComputeEnv(obj, f.Env) begins.
ComputeCall ==
    /\ Idle
    /\ obj # NULL
    /\ frames' = <<[comp |-> obj, env |-> f.Env]>>
    /\ obj' = NULL
    /\ UNCHANGED <<f, heap, fault, out, done, log, lines>>

\* The running calls after an iteration r of the innermost one: its comp
\* and env are updated, and the call that runs a Closure is entered.
StepFrames(fr, r) ==
    IF Failed(r.s) THEN fr
    ELSE IF r.call = NULL
      THEN [fr EXCEPT ![Len(fr)] = [comp |-> r.comp, env |-> r.s.env]]
    ELSE Append([fr EXCEPT ![Len(fr)] = [comp |-> r.comp, env |-> r.s.env]],
                enterClosure(r.s, r.call))

\* One iteration of the loop of the innermost ComputeEnv call.
Step ==
    /\ fault = NoFault
    /\ frames # <<>>
    /\ frames[Len(frames)].comp # f.nil
    /\ \E r \in {computeStep([Cur EXCEPT !.env = frames[Len(frames)].env],
                              frames[Len(frames)].comp)} :
          /\ Commit(r.s)
          /\ frames' = StepFrames(frames, r)
    /\ UNCHANGED <<obj, log, lines>>

\* The return of a call, the outermost one storing its environment as
\* the interpreter's.
ReturnSavesEnv ==
    /\ fault = NoFault
    /\ frames # <<>>
    /\ frames[Len(frames)].comp = f.nil
    /\ frames' = SubSeq(frames, 1, Len(frames) - 1)
    /\ f' = IF Len(frames) = 1 THEN [f EXCEPT !.Env = frames[1].env] ELSE f
    /\ UNCHANGED <<heap, obj, fault, out, done, log, lines>>

\* The return of a call handing its environment to its caller.
ReturnLeaksEnv ==
    /\ fault = NoFault
    /\ frames # <<>>
    /\ frames[Len(frames)].comp = f.nil
    /\ frames' = IF Len(frames) = 1 THEN <<>>
                 ELSE [SubSeq(frames, 1, Len(frames) - 1)
                         EXCEPT ![Len(frames) - 1].env = frames[Len(frames)].env]
    /\ UNCHANGED <<f, heap, obj, fault, out, done, log, lines>>

\* The loop of the innermost ComputeEnv call ends: the call returns.
Return ==
    /\ fault = NoFault
    /\ frames # <<>>
    /\ frames[Len(frames)].comp = f.nil
    /\ frames' = SubSeq(frames, 1, Len(frames) - 1)
    /\ UNCHANGED <<f, heap, obj, fault, out, done, log, lines>>

(***************************************************************************)
(* The driver's read-evaluate loop (src/forsp.go, main): one line, one     *)
(* object read from it, that object computed, until bye.                   *)
(***************************************************************************)
Programs ==
    { <<"(", "3", " ", "4", " ", "-", ")">>,
      <<"(", "(", "3", " ", "4", " ", "-", ")", ")">>,
      <<"(", "(", "3", " ", "4", " ", "-", ")", " ", "$", "f", " ", "f", ")">>,
      <<"(", "1", " ", "2", " ", "c", "o", "n", "s", ")">>,
      <<"(", "1", " ", "$", "x", " ", "(", "x", ")", " ", "$", "f", " ", "f", " ", "2", " ", "$", "x", " ", "f", ")">>,
      <<"(", "(", "y", ")", " ", "$", "g", " ", "7", " ", "$", "y", " ", "g", ")">>,
      <<"(", "'", "x", " ", "'", "(", "1", ")", " ", "'", "c", "o", "n", "s", " ", "'", ")">>,
      <<"(", "5", " ", "$", "y", " ", "y", ")">>,
      <<"(", "y", ")">>,
      <<"(", "z", "z", ")">>,
      <<")">>,
      <<"^", "x">> }

ReplLine == \E inp \in Programs : obj = NULL /\ ~done /\ SetReader(inp)
ReplRead == lines > 0 /\ log = <<>> /\ ReadCall

Next == ReplLine \/ ReplRead \/ ComputeCall \/ Step \/ Return

Spec == Init /\ [][Next]_vars

(***************************************************************************)
(* A program that only reads: it sets buffers and calls Read on them.      *)
(***************************************************************************)
ReaderInputs ==
    { <<"^", "x">>, <<"$", "x">>, <<")">>, <<"x", " ", "x">>, <<"(", "a", " ", "b", ")", " ", "a">>, <<" ", ";", " ", "c", "\n", " ", "1", "2", " ", "p", "u", "s", "h">>,
      <<"'", "x">>, <<"(", "^", "x", ")">>, <<"(", ")">>, <<"(", "a">>, <<"^", "1", "2">>, <<"$", "a", "b">>,
      <<"(", "(", "a", ")", " ", "-", "3", " ", "(", ")", ")">>, <<"(", "1", " ", "(", "2", " ", "b", ")", " ", "+", "4", ")">>, <<"-", "1", "2">> }

ReaderLine == \E inp \in ReaderInputs : SetReader(inp)

NextReader == ReaderLine \/ ReadCall

SpecReader == Init /\ [][NextReader]_vars

(***************************************************************************)
(* The driver given a file (src/forsp.go, main, the branch for an          *)
(* argument): the whole file is the one buffer, one object is read from it *)
(* and computed.  The files are the two-operand arithmetic programs.       *)
(***************************************************************************)
ArithInputs == {MinInt, -8, -1, 0, 1, 3, 4, IntBits - 1, IntBits, MaxInt}
ArithNames == { <<"-">>, <<"*">>, <<"n", "a", "n", "d">>, <<"<", "<">>, <<">", ">">> }

\* The text "(a b name)".
ArithProgram(a, b, name) ==
    <<"(">> \o FormatInt(a) \o <<" ">> \o FormatInt(b) \o <<" ">> \o name \o <<")">>

\* Files that bind and resolve names.
BindingPrograms ==
    { <<"(", "5", " ", "$", "y", " ", "y", ")">>, <<"(", "1", " ", "$", "x", " ", "x", " ", "2", " ", "$", "x", " ", "x", ")">>, <<"(", "1", " ", "$", "x", " ", "(", "2", " ", "$", "x", " ", "x", ")", " ", "$", "g", " ", "g", " ", "x", ")">>,
      <<"(", "7", " ", "8", " ", "$", "a", " ", "$", "b", " ", "a", " ", "b", " ", "a", ")">> }

\* Files that invoke a primitive on a stack too short for it.
UnderflowPrograms ==
    { <<"(", "c", "o", "n", "s", ")">>, <<"(", "1", " ", "c", "o", "n", "s", ")">>, <<"(", "p", "o", "p", ")">>, <<"(", "'", "k", " ", "p", "o", "p", ")">>, <<"(", "e", "q", ")">>, <<"(", "1", " ", "e", "q", ")">>,
      <<"(", "c", "a", "r", ")">>, <<"(", "c", "d", "r", ")">>, <<"(", "c", "s", "w", "a", "p", ")">>, <<"(", "'", "t", " ", "c", "s", "w", "a", "p", ")">>, <<"(", "1", " ", "'", "t", " ", "c", "s", "w", "a", "p", ")">>,
      <<"(", "t", "a", "g", ")">>, <<"(", "p", "r", "i", "n", "t", ")">>, <<"(", "p", "u", "s", "h", ")">>, <<"(", "-", ")">>, <<"(", "4", " ", "*", ")">>, <<"(", "4", " ", "n", "a", "n", "d", ")">>,
      <<"(", "4", " ", "<", "<", ")">>, <<"(", ">", ">", ")">> }

\* Files that run an atom nothing is bound to.
UnboundPrograms == { <<"(", "z", "z", ")">>, <<"(", "1", " ", "2", " ", "z", "z", ")">>, <<"(", "1", " ", "$", "x", " ", "(", "z", "z", " ", "x", ")", " ", "$", "g", " ", "g", ")">> }

\* Files that compare two objects with eq.
EqPrograms ==
    { <<"(", "3", " ", "3", " ", "e", "q", ")">>, <<"(", "3", " ", "4", " ", "e", "q", ")">>, <<"(", "3", " ", "'", "a", " ", "e", "q", ")">>, <<"(", "'", "a", " ", "'", "a", " ", "e", "q", ")">>, <<"(", "'", "a", " ", "'", "b", " ", "e", "q", ")">>,
      <<"(", "'", "(", ")", " ", "'", "(", ")", " ", "e", "q", ")">>, <<"(", "(", ")", " ", "(", ")", " ", "e", "q", ")">>, <<"(", "'", "(", "1", ")", " ", "'", "(", "1", ")", " ", "e", "q", ")">>, <<"(", "'", "(", "1", ")", " ", "$", "p", " ", "p", " ", "p", " ", "e", "q", ")">>,
      <<"(", "1", " ", "$", "n", " ", "'", "(", ")", " ", "n", " ", "c", "o", "n", "s", " ", "'", "(", ")", " ", "n", " ", "c", "o", "n", "s", " ", "e", "q", ")">> }

\* Files that use cswap.
CswapPrograms ==
    { <<"(", "1", " ", "2", " ", "3", " ", "'", "t", " ", "c", "s", "w", "a", "p", ")">>, <<"(", "1", " ", "2", " ", "3", " ", "'", "x", " ", "c", "s", "w", "a", "p", ")">>, <<"(", "1", " ", "2", " ", "3", " ", "4", " ", "c", "s", "w", "a", "p", ")">>,
      <<"(", "1", " ", "2", " ", "'", "(", ")", " ", "c", "s", "w", "a", "p", ")">>, <<"(", "1", " ", "2", " ", "3", " ", "3", " ", "e", "q", " ", "c", "s", "w", "a", "p", ")">>, <<"(", "1", " ", "2", " ", "3", " ", "4", " ", "e", "q", " ", "c", "s", "w", "a", "p", ")">>,
      <<"(", "1", " ", "2", " ", "'", "t", " ", "c", "s", "w", "a", "p", ")">> }

\* Files with a list as an item.
LiteralPrograms ==
    { <<"(", "1", " ", "$", "x", " ", "(", "x", ")", ")">>, <<"(", "(", ")", ")">>, <<"(", "(", "1", " ", "p", "r", "i", "n", "t", ")", ")">>, <<"(", "2", " ", "(", "3", " ", "4", " ", "-", ")", " ", "5", ")">> }

\* Files that take the stack or the environment as a value.
StackPrograms ==
    { <<"(", "1", " ", "2", " ", "s", "t", "a", "c", "k", " ", "$", "s", " ", "3", " ", "c", "o", "n", "s", " ", "s", ")">>, <<"(", "1", " ", "s", "t", "a", "c", "k", " ", "c", "d", "r", ")">>, <<"(", "e", "n", "v", " ", "1", " ", "$", "x", " ", "e", "n", "v", ")">>,
      <<"(", "1", " ", "$", "x", " ", "(", "x", ")", " ", "$", "g", " ", "2", " ", "$", "x", " ", "g", ")">> }

\* Files that bind names inside the body of a closure.
ScopePrograms ==
    { <<"(", "1", " ", "$", "a", " ", "(", "a", " ", "5", " ", "$", "a", " ", "a", ")", " ", "$", "g", " ", "g", " ", "g", " ", "a", ")">>, <<"(", "(", "7", " ", "$", "z", ")", " ", "$", "h", " ", "h", " ", "z", ")">> }

FilePrograms ==
    {ArithProgram(a, b, name) : a \in ArithInputs, b \in ArithInputs, name \in ArithNames}
    \cup { <<"(", "'", "x", " ", "3", " ", "-", ")">>, <<"(", "3", " ", "'", "(", "1", ")", " ", "*", ")">>, <<"(", "4", " ", "-", ")">> }
    \cup BindingPrograms
    \cup UnderflowPrograms
    \cup UnboundPrograms
    \cup EqPrograms
    \cup CswapPrograms
    \cup LiteralPrograms
    \cup StackPrograms
    \cup ScopePrograms

FileLoad == \E inp \in FilePrograms : lines = 0 /\ SetReader(inp)

NextFile == FileLoad \/ ReplRead \/ ComputeCall \/ Step \/ Return

SpecFile == Init /\ [][NextFile]_vars

(***************************************************************************)
(* The vocabulary of the properties.                                       *)
(***************************************************************************)
\* The innermost running ComputeEnv call.
TopFrame == frames[Len(frames)]
\* The innermost call is about to run an item of its list.
Running ==
    /\ fault = NoFault
    /\ frames # <<>>
    /\ TopFrame.comp # f.nil
    /\ heap[TopFrame.comp].Tag = TagPair
\* The item that iteration runs, and the items after it.
CurCmd == heap[TopFrame.comp].car
CurRest == heap[TopFrame.comp].cdr

RECURSIVE Binding(_, _)
\* The value of the first binding of the object key in the list env, NULL
\* when env binds it nowhere.
Binding(env, key) ==
    IF env = f.nil THEN NULL
    ELSE IF heap[heap[env].car].car = key THEN heap[heap[env].car].cdr
    ELSE Binding(heap[env].cdr, key)

\* What the item about to run is bound to when it is an atom (else NULL).
CurVal == IF heap[CurCmd].Tag = TagAtom THEN Binding(TopFrame.env, CurCmd) ELSE NULL
\* The primitive the item about to run invokes ("" when it invokes none).
CurPrim ==
    IF CurCmd # f.AtomQuote /\ CurVal # NULL /\ heap[CurVal].Tag = TagPrimitive
      THEN heap[CurVal].Primitive
    ELSE ""

RECURSIVE ListLen(_)
\* The number of elements of a list of the heap.
ListLen(v) == IF v = f.nil THEN 0 ELSE 1 + ListLen(heap[v].cdr)

\* The stack before and after a step, element by element.
StackDepth == ListLen(f.Stack)
Top == heap[f.Stack].car
Second == heap[heap[f.Stack].cdr].car
Below2 == heap[heap[f.Stack].cdr].cdr
\* The objects that exist are never changed by a step.
HeapKept == Len(heap') >= Len(heap) /\ SubSeq(heap', 1, Len(heap)) = heap

\* The driver has set its first buffer, read one object from it and
\* computed it, starting from the empty stack.
FirstCycleDone == Idle /\ lines = 1 /\ Len(log) = 1 /\ obj = NULL

(***************************************************************************)
(* C1.  cons.                                                              *)
(***************************************************************************)
ProgCons == <<"(", "1", " ", "2", " ", "c", "o", "n", "s", ")">>

\* The step is a run of cons on a stack of two elements or more.
ConsRuns == Running /\ CurPrim = "primCons" /\ StackDepth >= 2

\* C1 as stated: when cons runs on a stack of at least two elements, the
\* element popped first (the stack top) becomes the cdr of the new pair and
\* the element popped second its car; the pair replaces both and the rest of
\* the stack is unchanged.
C1_ConsTopIsCdr ==
    [][ConsRuns =>
         /\ fault' = NoFault
         /\ heap'[heap'[f'.Stack].car].Tag = TagPair
         /\ heap'[heap'[f'.Stack].car].cdr = Top
         /\ heap'[heap'[f'.Stack].car].car = Second
         /\ heap'[f'.Stack].cdr = Below2]_vars

\* C1 amended: when cons runs on a stack of at least two elements, the
\* element popped first (the stack top) becomes the car of the new pair and
\* the element popped second its cdr; the new pair replaces both, the rest
\* of the stack is the identical list and no existing object changes.
C1_ConsTopIsCar ==
    [][ConsRuns =>
         /\ fault' = NoFault
         /\ heap'[f'.Stack].car > Len(heap)
         /\ heap'[heap'[f'.Stack].car].Tag = TagPair
         /\ heap'[heap'[f'.Stack].car].car = Top
         /\ heap'[heap'[f'.Stack].car].cdr = Second
         /\ heap'[f'.Stack].cdr = Below2
         /\ HeapKept]_vars

\* cons has run on the stack (2 1): the pair (2 . 1) is the whole stack.
C1_Witness ==
    /\ f.input = ProgCons
    /\ FirstCycleDone
    /\ StackDepth = 1
    /\ heap[Top].Tag = TagPair
    /\ heap[heap[Top].car].Number = 2
    /\ heap[heap[Top].cdr].Number = 1

(***************************************************************************)
(* C2.  The binary arithmetic primitives - * nand.                         *)
(***************************************************************************)
ProgSub34 == <<"(", "3", " ", "4", " ", "-", ")">>

\* The Number a value of the stack counts as (0 for what is not a Number).
NumberOf(v) == IF heap[v].Tag = TagNumber THEN heap[v].Number ELSE 0

\* Bit i of the two's-complement pattern of x.
BitOf(x, i) == ((x % (2 ^ IntBits)) \div (2 ^ i)) % 2

RECURSIVE FromBits(_, _)
\* The Number whose pattern has bit(i) at each position i below n.
FromBits(bit(_), n) ==
    IF n = 0 THEN 0
    ELSE IF n = IntBits THEN FromBits(bit, n - 1) - bit(n - 1) * (2 ^ (n - 1))
    ELSE FromBits(bit, n - 1) + bit(n - 1) * (2 ^ (n - 1))

\* a - b, a * b and the bitwise not-and of a and b, in the arithmetic of a
\* Number.
ExpectSub(a, b) == Wrap(a - b)
ExpectMul(a, b) == Wrap(a * b)
ExpectNand(a, b) == FromBits(LAMBDA i : 1 - BitOf(a, i) * BitOf(b, i), IntBits)

\* The step is a run of the primitive fn on a stack of two elements or more.
BinaryRuns(fn) == Running /\ CurPrim = fn /\ StackDepth >= 2

\* After the step the stack is the Number n, a new object, on top of the
\* identical list that was below the two operands.
PushedNumber(n) ==
    /\ fault' = NoFault
    /\ heap'[f'.Stack].car > Len(heap)
    /\ heap'[heap'[f'.Stack].car].Tag = TagNumber
    /\ heap'[heap'[f'.Stack].car].Number = n
    /\ heap'[f'.Stack].cdr = Below2
    /\ HeapKept

\* C2: when -, * or nand runs on a stack whose top is b and whose next
\* element is a, exactly those two elements are removed and the one Number
\* a - b, a * b or not-and(a, b) is pushed, the rest of the stack unchanged;
\* in particular 3 4 - leaves the Number -1 on top.
C2_BinaryArith ==
    [][/\ (BinaryRuns("primSub") =>
              /\ PushedNumber(ExpectSub(NumberOf(Second), NumberOf(Top)))
              /\ (NumberOf(Second) = 3 /\ NumberOf(Top) = 4
                    => heap'[heap'[f'.Stack].car].Number = -1))
        /\ (BinaryRuns("primMul") =>
              PushedNumber(ExpectMul(NumberOf(Second), NumberOf(Top))))
        /\ (BinaryRuns("primNand") =>
              PushedNumber(ExpectNand(NumberOf(Second), NumberOf(Top))))]_vars

\* The file (3 4 -) has run: the stack is the one Number -1.
C2_Witness ==
    /\ f.input = ProgSub34
    /\ FirstCycleDone
    /\ StackDepth = 1
    /\ heap[Top].Tag = TagNumber
    /\ heap[Top].Number = -1

(***************************************************************************)
(* C3.  Closures capture the environment of their creation.                *)
(***************************************************************************)
ProgCapture == <<"(", "1", " ", "$", "x", " ", "(", "x", ")", " ", "$", "f", " ", "f", " ", "2", " ", "$", "x", " ", "f", ")">>
ProgLate == <<"(", "(", "y", ")", " ", "$", "g", " ", "7", " ", "$", "y", " ", "g", ")">>

\* The step runs an atom bound to a Closure.
ClosureRuns ==
    Running /\ CurCmd # f.AtomQuote /\ CurVal # NULL /\ heap[CurVal].Tag = TagClosure
\* The step runs a list literal, which creates a Closure.
ClosureMade ==
    Running /\ (heap[CurCmd].Tag = TagNil \/ heap[CurCmd].Tag = TagPair)

\* C3: an atom bound to a Closure runs the closure's body in the environment
\* the Closure holds, the identical list at every invocation; that list is
\* the environment that was current when the Closure was created, and no
\* later step changes the Closure or any cell of the list.  So the body of
\* (x), created while x was 1, pushes 1 when invoked before and when invoked
\* after x is rebound to 2, and the body of (y), created before y was bound,
\* finds no y when invoked after.
C3_ClosureCapture ==
    [][/\ (ClosureRuns =>
              /\ fault' = NoFault
              /\ Len(frames') = Len(frames) + 1
              /\ frames'[Len(frames')].comp = heap[CurVal].body
              /\ frames'[Len(frames')].env = heap[CurVal].env
              /\ frames'[Len(frames)].env = TopFrame.env
              /\ f'.Stack = f.Stack)
        /\ (ClosureMade =>
              /\ heap'[heap'[f'.Stack].car].Tag = TagClosure
              /\ heap'[f'.Stack].car > Len(heap)
              /\ heap'[heap'[f'.Stack].car].body = CurCmd
              /\ heap'[heap'[f'.Stack].car].env = TopFrame.env)
        /\ HeapKept
        /\ (f'.input = ProgCapture /\ FirstCycleDone' =>
              /\ heap'[heap'[f'.Stack].car].Tag = TagNumber
              /\ heap'[heap'[f'.Stack].car].Number = 1
              /\ heap'[heap'[heap'[f'.Stack].cdr].car].Tag = TagNumber
              /\ heap'[heap'[heap'[f'.Stack].cdr].car].Number = 1
              /\ heap'[heap'[f'.Stack].cdr].cdr = f'.nil)
        /\ (f'.input = ProgLate /\ lines' = 1 =>
              /\ ~FirstCycleDone'
              /\ fault' \in {NoFault, "FAIL: Failed to find key in environment"})]_vars

\* The closure (x) is being invoked through f after x was rebound to 2: the
\* body is about to resolve x, in an environment other than the caller's.
C3_Witness ==
    /\ f.input = ProgCapture
    /\ Len(frames) = 2
    /\ Running
    /\ heap[CurCmd].Atom = <<"x">>
    /\ heap[Binding(frames[1].env, CurCmd)].Number = 2
    /\ heap[CurVal].Number = 1

(***************************************************************************)
(* C4.  One cycle of the driver on a list.                                 *)
(***************************************************************************)
ProgNested == <<"(", "(", "3", " ", "4", " ", "-", ")", ")">>
ProgBound == <<"(", "(", "3", " ", "4", " ", "-", ")", " ", "$", "f", " ", "f", ")">>

\* No Closure exists.
NoClosure == \A i \in 1..Len(heap) : heap[i].Tag # TagClosure
\* The stack is one object, the Number n.
StackIsNumber(n) ==
    StackDepth = 1 /\ heap[Top].Tag = TagNumber /\ heap[Top].Number = n
\* The list v is the three items 3, 4 and the atom -.
IsSub34(v) ==
    /\ ListLen(v) = 3
    /\ heap[heap[v].car].Tag = TagNumber /\ heap[heap[v].car].Number = 3
    /\ heap[heap[heap[v].cdr].car].Tag = TagNumber
    /\ heap[heap[heap[v].cdr].car].Number = 4
    /\ heap[heap[heap[heap[v].cdr].cdr].car].Atom = <<"-">>

\* C4 as stated: the cycle of the driver (Read one object, Compute it in the
\* initial environment) on the input (3 4 -) with an empty stack leaves
\* exactly one Closure on the stack and no computed Number.
C4_TopLevelListDeferred ==
    f.input = ProgSub34 /\ FirstCycleDone =>
        StackDepth = 1 /\ heap[Top].Tag = TagClosure

\* C4 amended: the cycle of the driver on the input (3 4 -) with an empty
\* stack runs the items of the list and leaves exactly the Number -1 on the
\* stack, no Closure having been created; a list is deferred when it is an
\* item of the computed list: ((3 4 -)) leaves exactly one Closure, whose
\* body is the list (3 4 -), and no computed Number, and ((3 4 -) $f f),
\* which invokes that closure through the atom f bound to it, leaves -1.
C4_TopLevelListRuns ==
    FirstCycleDone =>
        /\ (f.input = ProgSub34 => StackIsNumber(-1) /\ NoClosure)
        /\ (f.input = ProgNested =>
              /\ StackDepth = 1
              /\ heap[Top].Tag = TagClosure
              /\ IsSub34(heap[Top].body)
              /\ heap[Top].env = f.Env
              /\ \A i \in 1..Len(heap) :
                    heap[i].Tag = TagNumber => heap[i].Number \in {3, 4})
        /\ (f.input = ProgBound => StackIsNumber(-1))

\* The driver has read (3 4 -) and computed it: a Number is on the stack and
\* there is no Closure.
C4_Witness ==
    /\ f.input = ProgSub34
    /\ FirstCycleDone
    /\ NoClosure
    /\ heap[Top].Tag = TagNumber

(***************************************************************************)
(* C5.  The directives ^ and $.                                            *)
(***************************************************************************)
DirectiveScalars == { <<"x">>, <<"1", "2">>, <<"a", "b">> }

\* The object v is the scalar the text str denotes: the Number 12, or the
\* atom of that text.
IsScalar(v, str) ==
    IF str = <<"1", "2">> THEN heap[v].Tag = TagNumber /\ heap[v].Number = 12
    ELSE heap[v].Tag = TagAtom /\ heap[v].Atom = str

\* The buffer is the directive d before the scalar str and nothing else, and
\* the first Read of it found the read-ahead queue empty.
ReadsDirective(d, str) ==
    f.input = <<d>> \o str /\ log # <<>> /\ ~log[1].queued

\* The Reads of such a buffer so far: quote, the scalar, then last; the
\* first leaves the cursor at the end of the text, the others where it was;
\* the third leaves the queue empty.
DesugarsTo(str, last) ==
    /\ log[1].ret = f.AtomQuote
    /\ log[1].from = 0
    /\ log[1].pos = Len(f.input)
    /\ log[1].readStack # NULL
    /\ Len(log) >= 2 =>
          /\ IsScalar(log[2].ret, str)
          /\ log[2].pos = log[1].pos
          /\ log[2].readStack # NULL
    /\ Len(log) >= 3 =>
          /\ log[3].ret = last
          /\ log[3].pos = log[1].pos
          /\ log[3].readStack = NULL

\* C5: with an empty read-ahead queue, three successive Reads of ^x return
\* the atom quote, then x, then the atom push, and of $x return quote, x,
\* pop; the scalar is consumed from the input once, by the first call; the
\* second and third calls leave the cursor alone, and the queue is empty
\* again after the third.
C5_DirectiveDesugars ==
    \A str \in DirectiveScalars :
        /\ ReadsDirective("^", str) => DesugarsTo(str, f.AtomPush)
        /\ ReadsDirective("$", str) => DesugarsTo(str, f.AtomPop)

\* Three Reads of ^x were made, the first on an empty queue: the third
\* returned the atom push.
C5_Witness ==
    /\ ReadsDirective("^", <<"x">>)
    /\ Len(log) = 3
    /\ log[3].ret = f.AtomPush
    /\ heap[f.AtomPush].Atom = <<"p", "u", "s", "h">>

(***************************************************************************)
(* C6.  The shifts << and >>.                                              *)
(***************************************************************************)
ProgRshNeg == <<"(", "-", "8", " ", "1", " ", ">", ">", ")">>

\* b as the unsigned shift count the primitives convert it to: a negative b
\* is a count beyond the width.
CountOf(b) == IF b < 0 THEN IntBits ELSE b

\* a shifted left by b bits, zeros entering at the right.
ExpectLsh(a, b) ==
    FromBits(LAMBDA i : IF i >= CountOf(b) THEN BitOf(a, i - CountOf(b)) ELSE 0,
             IntBits)
\* a shifted right by b bits, zeros entering at the left.
ExpectRshZeroFill(a, b) ==
    FromBits(LAMBDA i : IF i + CountOf(b) < IntBits THEN BitOf(a, i + CountOf(b))
                        ELSE 0,
             IntBits)
\* a shifted right by b bits, copies of the sign bit entering at the left.
ExpectRshSignFill(a, b) ==
    FromBits(LAMBDA i : IF i + CountOf(b) < IntBits THEN BitOf(a, i + CountOf(b))
                        ELSE BitOf(a, IntBits - 1),
             IntBits)

\* C6 as stated: << and >> push the logical shift of a by b bits (b the stack
\* top, a the element beneath): the vacated bit positions are filled with
\* zeros for every a, negative a under >> included.
C6_ShiftsZeroFill ==
    [][/\ (BinaryRuns("primLsh") =>
              PushedNumber(ExpectLsh(NumberOf(Second), NumberOf(Top))))
        /\ (BinaryRuns("primRsh") =>
              PushedNumber(ExpectRshZeroFill(NumberOf(Second), NumberOf(Top))))]_vars

\* C6 amended: << pushes a shifted left by b bits, the vacated positions
\* filled with zeros; >> pushes the arithmetic shift of a right by b bits,
\* the vacated positions filled with copies of the sign bit of a: zeros for
\* a non-negative a, ones for a negative a (b the stack top, read as an
\* unsigned count, a the element beneath).
C6_ShiftsSignFill ==
    [][/\ (BinaryRuns("primLsh") =>
              PushedNumber(ExpectLsh(NumberOf(Second), NumberOf(Top))))
        /\ (BinaryRuns("primRsh") =>
              /\ PushedNumber(ExpectRshSignFill(NumberOf(Second), NumberOf(Top)))
              /\ (NumberOf(Second) >= 0 =>
                    PushedNumber(ExpectRshZeroFill(NumberOf(Second), NumberOf(Top)))))]_vars

\* The file (-8 1 >>) has run: the stack is the one Number -4.
C6_Witness ==
    /\ f.input = ProgRshNeg
    /\ FirstCycleDone
    /\ StackIsNumber(-4)

(***************************************************************************)
(* C7.  Read and the cursor.                                               *)
(***************************************************************************)
\* C7: every Read that returns an object while the read-ahead queue is empty
\* leaves the cursor strictly greater than it was; over the Reads of one
\* buffer the cursor never decreases and never exceeds the buffer length.
C7_ReadAdvances ==
    \A i \in 1..Len(log) :
        /\ (~log[i].queued /\ log[i].ret # NULL => log[i].pos > log[i].from)
        /\ log[i].from <= log[i].pos
        /\ log[i].pos <= Len(f.input)
        /\ (i > 1 => log[i].from = log[i - 1].pos)

\* The second half of C7 alone: over the Reads of one buffer the cursor
\* never decreases and never exceeds the buffer length.
C7_CursorMonotone ==
    \A i \in 1..Len(log) :
        /\ log[i].from <= log[i].pos
        /\ log[i].pos <= Len(f.input)
        /\ (i > 1 => log[i].from = log[i - 1].pos)

\* A Read on an empty queue returned an object and left the cursor where it
\* was: the object is the atom of the empty text, read at a ')'.
C7_ReadStalls ==
    \E i \in 1..Len(log) :
        /\ ~log[i].queued
        /\ log[i].ret # NULL
        /\ log[i].pos = log[i].from
        /\ heap[log[i].ret].Tag = TagAtom
        /\ heap[log[i].ret].Atom = <<>>
        /\ f.input[log[i].pos + 1] = ")"

(***************************************************************************)
(* C8.  Interning.                                                         *)
(***************************************************************************)
RECURSIVE ListSeq(_)
\* The elements of a list of the heap, in order.
ListSeq(v) == IF v = f.nil THEN <<>> ELSE <<heap[v].car>> \o ListSeq(heap[v].cdr)

\* The interned-atom table.
Table == ListSeq(f.internedAtoms)
InTable(text) == \E i \in 1..Len(Table) : heap[Table[i]].Atom = text

\* The texts intern is called with.
InternTexts == { <<"x">>, <<"q", "u", "o", "t", "e">>, <<"z", "z">>, <<"a">>, <<"p", "o", "p">>, <<>> }

\* s1 the machine after intern(text), s2 after a second intern(text): both
\* calls return the one atom of that text, and the second changes nothing.
InternReturnsSame(text, s1, s2) ==
    /\ s1.fault = NoFault
    /\ s1.heap[s1.ret].Tag = TagAtom
    /\ s1.heap[s1.ret].Atom = text
    /\ s2.ret = s1.ret
    /\ s2.heap = s1.heap
    /\ s2.f = s1.f

\* A call with a text the table T holds changes nothing and returns an atom
\* of the table.
InternPresent(T, s1) ==
    /\ s1.heap = heap
    /\ s1.f = f
    /\ \E i \in 1..Len(T) : T[i] = s1.ret

\* A call with a new text creates one atom and puts it in one new entry at
\* the front of the table, the old table the identical list behind it.
InternAbsent(s1) ==
    /\ Len(s1.heap) = Len(heap) + 2
    /\ SubSeq(s1.heap, 1, Len(heap)) = heap
    /\ s1.ret > Len(heap)
    /\ s1.f = [f EXCEPT !.internedAtoms = s1.f.internedAtoms]
    /\ s1.heap[s1.f.internedAtoms].Tag = TagPair
    /\ s1.heap[s1.f.internedAtoms].car = s1.ret
    /\ s1.heap[s1.f.internedAtoms].cdr = f.internedAtoms

\* The table T holds no two atoms of equal text, and holds every atom.
TableUnique(T) ==
    /\ \A i, j \in 1..Len(T) : heap[T[i]].Atom = heap[T[j]].Atom => i = j
    /\ \A v \in 1..Len(heap) :
          heap[v].Tag = TagAtom => \E i \in 1..Len(T) : T[i] = v

\* C8: after any sequence of intern calls the table holds no two atoms of
\* equal text, and intern(text) returns the identical atom on every call
\* with the same text; a call with a text already present leaves the table
\* unchanged, and a call with a new text prepends exactly one entry.
C8_InternUnique ==
    \A T \in {Table} :
        /\ TableUnique(T)
        /\ fault = NoFault =>
              \A text \in InternTexts :
                  \A s1 \in {intern(Cur, text)} :
                      /\ \A s2 \in {intern(s1, text)} : InternReturnsSame(text, s1, s2)
                      /\ IF \E i \in 1..Len(T) : heap[T[i]].Atom = text
                           THEN InternPresent(T, s1)
                         ELSE InternAbsent(s1)

\* The text x x was read by two Reads: the second intern of x returned the
\* atom the first one created, and the table holds it once.
C8_Witness ==
    /\ f.input = <<"x", " ", "x">>
    /\ Len(log) = 2
    /\ log[1].ret = log[2].ret
    /\ heap[log[1].ret].Atom = <<"x">>
    /\ InTable(<<"x">>)
    /\ ~InTable(<<"z", "z">>)

(***************************************************************************)
(* C9.  The quote form.                                                    *)
(***************************************************************************)
ProgQuote == <<"(", "'", "x", " ", "'", "(", "1", ")", " ", "'", "c", "o", "n", "s", " ", "'", ")">>
QuoteFault == "FAIL: Expected data following a quote form"

\* The step runs the interned quote atom.
QuoteRuns == Running /\ CurCmd = f.AtomQuote

\* C9: when the item ComputeEnv runs is the interned quote atom and another
\* item follows, that item is pushed as the identical object and is not
\* evaluated (nothing but the new stack cell is created, no call is entered,
\* nothing is printed, the environment is the same) and both items are
\* consumed; when quote is the last item the computation aborts with a fatal
\* error, the stack as it was.
C9_QuotePushesLiteral ==
    [][QuoteRuns =>
         IF CurRest # f.nil
           THEN /\ fault' = NoFault
                /\ Len(heap') = Len(heap) + 1
                /\ HeapKept
                /\ f' = [f EXCEPT !.Stack = Len(heap')]
                /\ heap'[f'.Stack].Tag = TagPair
                /\ heap'[f'.Stack].car = heap[CurRest].car
                /\ heap'[f'.Stack].cdr = f.Stack
                /\ frames' = [frames EXCEPT ![Len(frames)].comp = heap[CurRest].cdr]
                /\ out' = out
                /\ done' = done
         ELSE /\ fault' = QuoteFault
              /\ f' = f
              /\ heap' = heap
              /\ frames' = frames]_vars

\* The line 'x '(1) 'cons ' has run up to its dangling quote: the atom cons,
\* the list (1) and the unbound atom x were pushed as they are.
C9_Witness ==
    /\ f.input = ProgQuote
    /\ fault = QuoteFault
    /\ StackDepth = 3
    /\ heap[Top].Atom = <<"c", "o", "n", "s">>
    /\ heap[Second].Tag = TagPair
    /\ heap[heap[Below2].car].Atom = <<"x">>

(***************************************************************************)
(* C10.  EnvDefine and EnvFind.                                            *)
(***************************************************************************)
\* The environments of the program: the initial one and those of the
\* running calls.
Envs == {f.Env} \cup {frames[i].env : i \in 1..Len(frames)}
\* The keys: the atoms of these texts that exist.
KeyTexts == { <<"x">>, <<"c", "o", "n", "s">>, <<"z", "z">> }
Keys == {v \in 1..Len(heap) : heap[v].Tag = TagAtom /\ heap[v].Atom \in KeyTexts}
\* The values: an atom, and the top of the stack when there is one.
Values == {f.AtomTrue} \cup (IF f.Stack = f.nil THEN {} ELSE {Top})

\* The machine m with key looked up in env: the two lookups r1 and r2 have
\* the same outcome, the same value or the same failure.
SameOutcome(r1, r2) ==
    /\ r1.fault = r2.fault
    /\ (r1.fault = NoFault => r1.ret = r2.ret)

\* d the machine after EnvDefine(env, k, v): the new environment is one new
\* entry, the binding of k to v, in front of the identical list env, and no
\* existing object changed.
DefinePrepends(d, env, k, v) ==
    /\ d.fault = NoFault
    /\ d.f = f
    /\ Len(d.heap) = Len(heap) + 2
    /\ SubSeq(d.heap, 1, Len(heap)) = heap
    /\ d.ret > Len(heap)
    /\ d.heap[d.ret].Tag = TagPair
    /\ d.heap[d.ret].cdr = env
    /\ d.heap[d.heap[d.ret].car].Tag = TagPair
    /\ d.heap[d.heap[d.ret].car].car = k
    /\ d.heap[d.heap[d.ret].car].cdr = v

\* C10: for every environment env, atoms k and k' with k' other than k, and
\* value v: EnvFind(EnvDefine(env, k, v), k) returns v, whatever env bound k
\* to; EnvFind(EnvDefine(env, k, v), k') has the outcome of EnvFind(env, k');
\* and EnvDefine leaves env unchanged, the tail of the new environment being
\* the identical old list.
C10_DefineThenFind ==
    fault = NoFault =>
        \A env \in Envs : \A k \in Keys : \A v \in Values :
            \A d \in {EnvDefine(Cur, env, k, v)} :
                /\ DefinePrepends(d, env, k, v)
                /\ \A r \in {EnvFind(d, d.ret, k)} :
                      r.fault = NoFault /\ r.ret = v /\ r.heap = d.heap /\ r.f = d.f
                /\ \A k2 \in Keys \ {k} :
                      SameOutcome(EnvFind(d, d.ret, k2), EnvFind(Cur, env, k2))

\* The line that binds x to 1 and later to 2 is running: x is bound twice
\* in the current environment, the binding to 2 in front.
C10_Witness ==
    /\ f.input = ProgCapture
    /\ Running
    /\ \E k \in Keys :
          /\ heap[k].Atom = <<"x">>
          /\ Binding(TopFrame.env, k) # NULL
          /\ heap[Binding(TopFrame.env, k)].Number = 2
          /\ \E e \in 1..Len(heap) :
                /\ heap[e].Tag = TagPair
                /\ heap[heap[e].car].Tag = TagPair
                /\ heap[heap[e].car].car = k
                /\ heap[heap[heap[e].car].cdr].Tag = TagNumber
                /\ heap[heap[heap[e].car].cdr].Number = 1

(***************************************************************************)
(* C11.  pop extends the environment of the running computation.           *)
(***************************************************************************)
ProgBind == <<"(", "5", " ", "$", "y", " ", "y", ")">>
ProgRebind == <<"(", "1", " ", "$", "x", " ", "x", " ", "2", " ", "$", "x", " ", "x", ")">>
ProgInner == <<"(", "1", " ", "$", "x", " ", "(", "2", " ", "$", "x", " ", "x", ")", " ", "$", "g", " ", "g", " ", "x", ")">>

\* The step is a run of pop with an atom on the stack top and a value
\* beneath it.
PopRuns ==
    Running /\ CurPrim = "primPop" /\ StackDepth >= 2 /\ heap[Top].Tag = TagAtom

\* The step runs an atom bound to a value that is neither a Closure nor a
\* Primitive.
ValueRuns ==
    /\ Running
    /\ CurCmd # f.AtomQuote
    /\ CurVal # NULL
    /\ heap[CurVal].Tag # TagClosure
    /\ heap[CurVal].Tag # TagPrimitive

\* The environment of the running call i is after the step what it was.
EnvKept(i) == i <= Len(frames') => frames'[i].env = frames[i].env

\* C11: when pop runs as an item of a list with atom k on the stack top and
\* value v beneath it, both are removed and the environment of that running
\* computation becomes the binding of k to v in front of what it was; the
\* environment of a running computation changes in no other step, and an
\* atom bound to a value pushes the first binding of its environment: so
\* every later item of the same list resolves k to v until k is rebound.
C11_PopExtendsEnv ==
    [][/\ (PopRuns =>
              /\ fault' = NoFault
              /\ f'.Stack = Below2
              /\ Len(frames') = Len(frames)
              /\ frames'[Len(frames)].comp = CurRest
              /\ frames'[Len(frames)].env > Len(heap)
              /\ heap'[frames'[Len(frames)].env].cdr = TopFrame.env
              /\ heap'[heap'[frames'[Len(frames)].env].car].car = Top
              /\ heap'[heap'[frames'[Len(frames)].env].car].cdr = Second
              /\ HeapKept)
        /\ (\A i \in 1..Len(frames) :
              EnvKept(i) \/ (i = Len(frames) /\ Running /\ CurPrim = "primPop"))
        /\ (ValueRuns =>
              /\ fault' = NoFault
              /\ heap'[f'.Stack].car = CurVal
              /\ heap'[f'.Stack].cdr = f.Stack)
        /\ (FirstCycleDone' =>
              /\ (f'.input = ProgBind =>
                    heap'[heap'[f'.Stack].car].Number = 5 /\ heap'[f'.Stack].cdr = f'.nil)
              /\ (f'.input = ProgRebind =>
                    /\ heap'[heap'[f'.Stack].car].Number = 2
                    /\ heap'[heap'[heap'[f'.Stack].cdr].car].Number = 1))]_vars

\* pop has bound y to 5 and the next item of the list, y, is about to
\* resolve to it; the stack is empty again.
C11_Witness ==
    /\ f.input = ProgBind
    /\ Running
    /\ heap[CurCmd].Atom = <<"y">>
    /\ CurVal # NULL
    /\ heap[CurVal].Number = 5
    /\ f.Stack = f.nil

(***************************************************************************)
(* C12.  Pop and stack underflow.                                          *)
(***************************************************************************)
UnderflowFault == "FAIL: Value Stack Underflow"

\* How many elements the primitive fn pops from the stack as it is now.
Pops(fn) ==
    CASE fn \in {"primPop", "primEq", "primCons", "primSub", "primMul",
                 "primNand", "primLsh", "primRsh"} -> 2
      [] fn \in {"primPush", "primCar", "primCdr", "primTag", "primPrint"} -> 1
      [] fn = "primCswap" ->
            IF f.Stack # f.nil /\ Top = f.AtomTrue THEN 3 ELSE 1
      [] OTHER -> 0

RECURSIVE Tails(_)
\* The list v and the lists behind each of its elements.
Tails(v) == IF v = f.nil THEN {v} ELSE {v} \cup Tails(heap[v].cdr)

\* Pop called now: the failure on the empty stack, else the front element
\* returned and the stack the list that was behind it.
PopContract(p) ==
    IF f.Stack = f.nil
      THEN p.fault = UnderflowFault /\ p.f = f /\ p.heap = heap
    ELSE /\ p.fault = NoFault
         /\ p.ret = Top
         /\ p.f = [f EXCEPT !.Stack = heap[f.Stack].cdr]
         /\ p.heap = heap

\* The step invokes a primitive on fewer elements than it pops.
UnderflowRuns == Running /\ CurPrim # "" /\ StackDepth < Pops(CurPrim)

\* C12: Pop on the empty stack fails with the stack underflow, and on
\* another stack returns the front element and leaves the identical list
\* that was behind it; so every primitive invoked on fewer elements than it
\* pops aborts with the stack underflow and pushes nothing: no object is
\* created and what is left of the stack is a tail of what it was.
C12_PopUnderflow ==
    [][/\ (fault = NoFault => PopContract(Pop(Cur)))
        /\ (UnderflowRuns =>
              /\ fault' = UnderflowFault
              /\ heap' = heap
              /\ f'.Stack \in Tails(f.Stack)
              /\ f' = [f EXCEPT !.Stack = f'.Stack]
              /\ out' = out
              /\ frames' = frames)]_vars

\* cons was invoked on the one element 1: it aborted with the underflow
\* after popping it.
C12_Witness ==
    /\ f.input = <<"(", "1", " ", "c", "o", "n", "s", ")">>
    /\ fault = UnderflowFault
    /\ f.Stack = f.nil
    /\ Len(frames) = 1

(***************************************************************************)
(* C13.  An atom without a binding.                                        *)
(***************************************************************************)
UnboundFault == "FAIL: Failed to find key in environment"

\* The step evaluates an atom the current environment binds nowhere.
UnboundRuns ==
    /\ Running
    /\ heap[CurCmd].Tag = TagAtom
    /\ CurCmd # f.AtomQuote
    /\ CurVal = NULL

\* C13: evaluating an atom that has no binding in the current environment
\* aborts with the failure of the lookup; the stack is the identical list it
\* was before the atom was evaluated, nothing is pushed and no object is
\* created.
C13_UnboundAtomAborts ==
    [][UnboundRuns =>
         /\ fault' = UnboundFault
         /\ f' = f
         /\ heap' = heap
         /\ frames' = frames
         /\ out' = out]_vars

\* The file (1 2 zz) has aborted at zz: 2 and 1 are on the stack as before.
C13_Witness ==
    /\ f.input = <<"(", "1", " ", "2", " ", "z", "z", ")">>
    /\ fault = UnboundFault
    /\ StackDepth = 2
    /\ heap[Top].Number = 2
    /\ heap[Second].Number = 1

(***************************************************************************)
(* C14.  eq.                                                               *)
(***************************************************************************)
ProgEqPairs == <<"(", "1", " ", "$", "n", " ", "'", "(", ")", " ", "n", " ", "c", "o", "n", "s", " ", "'", "(", ")", " ", "n", " ", "c", "o", "n", "s", " ", "e", "q", ")">>
ProgEqNumbers == <<"(", "3", " ", "3", " ", "e", "q", ")">>

\* a and b are the same object, or Numbers of equal value.
SameOrEqualNumbers(a, b) ==
    \/ a = b
    \/ (heap[a].Tag = TagNumber /\ heap[b].Tag = TagNumber
        /\ heap[a].Number = heap[b].Number)

\* a and b are two Pairs with the identical car and the identical cdr.
TwinPairs(a, b) ==
    /\ a # b
    /\ heap[a].Tag = TagPair /\ heap[b].Tag = TagPair
    /\ heap[a].car = heap[b].car
    /\ heap[a].cdr = heap[b].cdr

\* a and b are two Numbers of one value.
TwinNumbers(a, b) ==
    /\ a # b
    /\ heap[a].Tag = TagNumber /\ heap[b].Tag = TagNumber
    /\ heap[a].Number = heap[b].Number

\* After the step the object v is on top of the list that was below the two
\* operands, and no object other than the stack cell was created.
Pushed(v) ==
    /\ fault' = NoFault
    /\ Len(heap') = Len(heap) + 1
    /\ HeapKept
    /\ heap'[f'.Stack].car = v
    /\ heap'[f'.Stack].cdr = Below2

\* C14: eq pops two elements and pushes the t atom if and only if they are
\* the same object or both Numbers of equal value, the canonical Nil
\* otherwise; two distinct Pairs with the identical car and cdr compare
\* unequal, two separately created Numbers of one value compare equal.
C14_EqIdentityOrNumber ==
    [][BinaryRuns("primEq") =>
         /\ (SameOrEqualNumbers(Top, Second) => Pushed(f.AtomTrue))
         /\ (~SameOrEqualNumbers(Top, Second) => Pushed(f.nil))
         /\ (TwinPairs(Top, Second) => Pushed(f.nil))
         /\ (TwinNumbers(Top, Second) => Pushed(f.AtomTrue))]_vars

\* eq has compared two distinct Pairs, each (1) built by cons from the same
\* Number and the canonical Nil: Nil is the whole stack.
C14_Witness ==
    /\ f.input = ProgEqPairs
    /\ FirstCycleDone
    /\ StackDepth = 1
    /\ Top = f.nil
    /\ \E a, b \in 1..Len(heap) :
          /\ TwinPairs(a, b)
          /\ heap[a].cdr = f.nil
          /\ heap[heap[a].car].Tag = TagNumber

(***************************************************************************)
(* C15.  cswap.                                                            *)
(***************************************************************************)
ProgCswapTrue == <<"(", "1", " ", "2", " ", "3", " ", "'", "t", " ", "c", "s", "w", "a", "p", ")">>
ProgCswapOther == <<"(", "1", " ", "2", " ", "3", " ", "'", "x", " ", "c", "s", "w", "a", "p", ")">>

\* The third element of the stack and the list behind it.
Third == heap[Below2].car
Below3 == heap[Below2].cdr

\* The step is a run of cswap on a stack that holds a condition.
CswapRuns == Running /\ CurPrim = "primCswap" /\ StackDepth >= 1

\* C15: cswap always removes the condition from the stack top; when the
\* condition is the identical t atom the two elements beneath it are
\* exchanged and nothing else changes (the list below them is the identical
\* list, no existing object changes); for any other condition the remaining
\* stack is the identical list that was beneath the condition.
C15_CswapExchanges ==
    [][CswapRuns =>
         /\ (Top = f.AtomTrue /\ StackDepth >= 3 =>
               /\ fault' = NoFault
               /\ heap'[f'.Stack].car = Third
               /\ heap'[heap'[f'.Stack].cdr].car = Second
               /\ heap'[heap'[f'.Stack].cdr].cdr = Below3
               /\ Len(heap') = Len(heap) + 2
               /\ HeapKept
               /\ f' = [f EXCEPT !.Stack = f'.Stack])
         /\ (Top # f.AtomTrue =>
               /\ fault' = NoFault
               /\ f' = [f EXCEPT !.Stack = heap[f.Stack].cdr]
               /\ heap' = heap)
         /\ (fault' = NoFault =>
               frames' = [frames EXCEPT ![Len(frames)].comp = CurRest])
         /\ out' = out]_vars

\* The file (1 2 3 't cswap) has run: 3 and 2 were exchanged, the stack is
\* 2 over 3 over 1.
C15_Witness ==
    /\ f.input = ProgCswapTrue
    /\ FirstCycleDone
    /\ StackDepth = 3
    /\ heap[Top].Number = 2
    /\ heap[Second].Number = 3
    /\ heap[Third].Number = 1

(***************************************************************************)
(* C16.  A list as an item becomes a Closure.                              *)
(***************************************************************************)
ProgLiteral == <<"(", "1", " ", "$", "x", " ", "(", "x", ")", ")">>

\* The step evaluates a Nil or Pair item (an item that follows quote is
\* taken by the step of the quote).
LiteralRuns ==
    Running /\ (heap[CurCmd].Tag = TagNil \/ heap[CurCmd].Tag = TagPair)

\* C16: a Nil or Pair evaluated as an item of a list is never executed: the
\* stack gains exactly one new Closure whose body is the identical literal
\* and whose environment is the one current at that moment, bindings made
\* by pop earlier in the same list included; no call is entered and nothing
\* is printed.
C16_LiteralMakesClosure ==
    [][/\ (LiteralRuns =>
              /\ fault' = NoFault
              /\ Len(heap') = Len(heap) + 2
              /\ HeapKept
              /\ heap'[Len(heap) + 1].Tag = TagClosure
              /\ heap'[Len(heap) + 1].body = CurCmd
              /\ heap'[Len(heap) + 1].env = TopFrame.env
              /\ f' = [f EXCEPT !.Stack = Len(heap) + 2]
              /\ heap'[f'.Stack].car = Len(heap) + 1
              /\ heap'[f'.Stack].cdr = f.Stack
              /\ frames' = [frames EXCEPT ![Len(frames)].comp = CurRest]
              /\ out' = out)
        /\ (f'.input = ProgLiteral /\ FirstCycleDone' =>
              /\ heap'[heap'[f'.Stack].car].Tag = TagClosure
              /\ heap'[heap'[f'.Stack].car].env # f'.Env
              /\ heap'[heap'[heap'[heap'[heap'[f'.Stack].car].env].car].cdr].Number = 1)]_vars

\* The file (1 $x (x)) has run: the stack is the one Closure of (x), whose
\* environment starts with the binding of x to 1.
C16_Witness ==
    /\ f.input = ProgLiteral
    /\ FirstCycleDone
    /\ StackDepth = 1
    /\ heap[Top].Tag = TagClosure
    /\ heap[heap[heap[Top].body].car].Atom = <<"x">>
    /\ heap[heap[heap[heap[Top].env].car].car].Atom = <<"x">>
    /\ heap[heap[heap[heap[Top].env].car].cdr].Number = 1

(***************************************************************************)
(* C17.  Pairs are never mutated.                                          *)
(***************************************************************************)
ProgStackValue == <<"(", "1", " ", "2", " ", "s", "t", "a", "c", "k", " ", "$", "s", " ", "3", " ", "c", "o", "n", "s", " ", "s", ")">>

RECURSIVE Elems(_)
\* The elements of the chain of Pairs that starts at v, in order, followed
\* by what ends the chain (an object that is no Pair; the read-ahead queue
\* ends with the null pointer).
Elems(v) ==
    IF v = NULL \/ heap[v].Tag # TagPair THEN <<v>>
    ELSE <<heap[v].car>> \o Elems(heap[v].cdr)

\* C17: no step changes an existing object, so every Pair chain (a stack
\* taken as a value, a captured environment, a list built before) keeps its
\* elements in their order; stack pushes the identical stack list and env
\* the identical current environment.
C17_PairsNeverMutated ==
    [][/\ HeapKept
       /\ \A v \in 1..Len(heap) :
            heap[v].Tag = TagPair => Elems(v)' = Elems(v)
       /\ (Running /\ CurPrim = "primStack" =>
             /\ fault' = NoFault
             /\ Len(heap') = Len(heap) + 1
             /\ f' = [f EXCEPT !.Stack = Len(heap) + 1]
             /\ heap'[f'.Stack].car = f.Stack
             /\ heap'[f'.Stack].cdr = f.Stack)
       /\ (Running /\ CurPrim = "primEnv" =>
             /\ fault' = NoFault
             /\ Len(heap') = Len(heap) + 1
             /\ f' = [f EXCEPT !.Stack = Len(heap) + 1]
             /\ heap'[f'.Stack].car = TopFrame.env
             /\ heap'[f'.Stack].cdr = f.Stack)]_vars

\* The file (1 2 stack $s 3 cons s) has run: the stack list (2 1) bound to
\* s before the later push and cons is on top, still the elements 2 and 1.
C17_Witness ==
    /\ f.input = ProgStackValue
    /\ FirstCycleDone
    /\ StackDepth = 3
    /\ heap[Top].Tag = TagPair
    /\ Len(Elems(Top)) = 3
    /\ heap[Elems(Top)[1]].Number = 2
    /\ heap[Elems(Top)[2]].Number = 1
    /\ Elems(Top)[3] = f.nil
    /\ heap[Second].Tag = TagPair
    /\ heap[heap[Second].car].Number = 3
    /\ heap[heap[Second].cdr].Number = 2

(***************************************************************************)
(* C18.  Print, then Read, gives the object back.                          *)
(***************************************************************************)
InputNested == <<"(", "(", "a", ")", " ", "-", "3", " ", "(", ")", ")">>

RECURSIVE SameShape(_, _, _)
\* In the heap h the objects a and b are the same atom or the same Nil,
\* Numbers of one value, or Pairs whose cars and whose cdrs are so related.
SameShape(h, a, b) ==
    IF a = b THEN TRUE
    ELSE IF h[a].Tag = TagNumber /\ h[b].Tag = TagNumber
      THEN h[a].Number = h[b].Number
    ELSE IF h[a].Tag = TagPair /\ h[b].Tag = TagPair
      THEN SameShape(h, h[a].car, h[b].car) /\ SameShape(h, h[a].cdr, h[b].cdr)
    ELSE FALSE

RECURSIVE WellFormed(_)
\* v is what Read builds from atoms, numbers and nested lists: its leaves
\* are Nil, Numbers and atoms of one character or more (the atom of no
\* character is what Read returns where no token stands, as at a stray
\* closing parenthesis).
WellFormed(v) ==
    CASE heap[v].Tag = TagNil -> TRUE
      [] heap[v].Tag = TagNumber -> TRUE
      [] heap[v].Tag = TagAtom -> heap[v].Atom # <<>>
      [] heap[v].Tag = TagPair -> WellFormed(heap[v].car) /\ WellFormed(heap[v].cdr)
      [] OTHER -> FALSE

\* The machine after Print(v), started with nothing printed.
Printed(v) == PrintObj([Cur EXCEPT !.out = <<>>], v)
\* The machine after SetReader(text) and one Read.
ReadBack(s, text) == Read([s EXCEPT !.f.input = text, !.f.pos = 0])

\* C18: an object that Read returned, with nothing left in the read-ahead
\* queue, is printed as a text from which Read returns an object of the
\* same list structure with the same atoms, Numbers of equal value and the
\* canonical Nil; reading it back consumes the whole printed object.
C18_PrintReadRoundTrip ==
    (/\ fault = NoFault /\ log # <<>> /\ obj # NULL /\ f.readStack = NULL
     /\ WellFormed(obj)) =>
        \A p \in {Printed(obj)} :
        \A r \in {ReadBack(p, p.out)} :
            /\ ~Failed(p)
            /\ ~Failed(r)
            /\ r.f.readStack = NULL
            /\ SameShape(r.heap, obj, r.ret)
            /\ r.f.pos >= Len(p.out) - 1

\* Read has returned the list of ((a) -3 ()): a list in a list, a negative
\* Number and an empty list.
C18_Witness ==
    /\ f.input = InputNested
    /\ Len(log) = 1
    /\ fault = NoFault
    /\ f.readStack = NULL
    /\ obj # NULL
    /\ WellFormed(obj)
    /\ Len(Elems(obj)) = 4
    /\ heap[Elems(obj)[1]].Tag = TagPair
    /\ heap[Elems(obj)[2]].Number = -3
    /\ Elems(obj)[3] = f.nil
    /\ Printed(obj).out = InputNested \o <<"\n">>

(***************************************************************************)
(* C19.  Reading a list.                                                   *)
(***************************************************************************)
InputEmptyList == <<"(", ")">>
InputPushInList == <<"(", "^", "x", ")">>
InputListThenAtom == <<"(", "a", " ", "b", ")", " ", "a">>

\* The first Read of the buffer inp found the read-ahead queue empty and
\* returned an object.
FirstRead(inp) ==
    f.input = inp /\ log # <<>> /\ ~log[1].queued /\ log[1].ret # NULL

RECURSIVE NilTerminated(_)
\* The chain of Pairs at v ends with the canonical Nil, and so does every
\* chain among its elements.
NilTerminated(v) ==
    heap[v].Tag = TagPair =>
        /\ Elems(v)[Len(Elems(v))] = f.nil
        /\ \A i \in 1..(Len(Elems(v)) - 1) : NilTerminated(Elems(v)[i])

\* C19: a list is read as a chain of Pairs, one per element in source
\* order, ending with the canonical Nil; () is read as the canonical Nil;
\* (^x) is read as the three elements quote, x, push, the cursor past the
\* closing parenthesis and the read-ahead queue empty.
C19_ListReadsInOrder ==
    /\ \A i \in 1..Len(log) : log[i].ret # NULL => NilTerminated(log[i].ret)
    /\ FirstRead(InputEmptyList) =>
          log[1].ret = f.nil /\ log[1].pos = 2
    /\ FirstRead(InputPushInList) =>
          /\ Len(Elems(log[1].ret)) = 4
          /\ Elems(log[1].ret)[1] = f.AtomQuote
          /\ IsScalar(Elems(log[1].ret)[2], <<"x">>)
          /\ Elems(log[1].ret)[3] = f.AtomPush
          /\ log[1].pos = 4
          /\ log[1].readStack = NULL
    /\ FirstRead(InputListThenAtom) =>
          /\ Len(Elems(log[1].ret)) = 3
          /\ IsScalar(Elems(log[1].ret)[1], <<"a">>)
          /\ IsScalar(Elems(log[1].ret)[2], <<"b">>)
          /\ log[1].pos = 5
          /\ (Len(log) >= 2 => log[2].ret = Elems(log[1].ret)[1])
    /\ FirstRead(InputNested) =>
          /\ Len(Elems(log[1].ret)) = 4
          /\ Len(Elems(Elems(log[1].ret)[1])) = 2
          /\ IsScalar(Elems(Elems(log[1].ret)[1])[1], <<"a">>)
          /\ heap[Elems(log[1].ret)[2]].Tag = TagNumber
          /\ heap[Elems(log[1].ret)[2]].Number = -3
          /\ Elems(log[1].ret)[3] = f.nil
          /\ log[1].pos = Len(InputNested)

\* The first Read of (^x) returned a list whose third element is the atom
\* push and whose chain ends with Nil, the cursor past the ')'.
C19_Witness ==
    /\ FirstRead(InputPushInList)
    /\ heap[log[1].ret].Tag = TagPair
    /\ Elems(log[1].ret) = <<f.AtomQuote, Elems(log[1].ret)[2], f.AtomPush, f.nil>>
    /\ log[1].pos = Len(f.input)
    /\ log[1].readStack = NULL

(***************************************************************************)
(* C20.  Compute and the interpreter's environment.                        *)
(***************************************************************************)
ProgLookupY == <<"(", "y", ")">>

\* The environment the driver's constructor leaves in the interpreter.
ConstructedEnv == MainNew.f.Env

\* Some object of the heap is the binding of the atom y to the Number 5.
BoundYTo5 ==
    \E i \in 1..Len(heap) :
        /\ heap[i].Tag = TagPair
        /\ heap[heap[i].car].Tag = TagAtom
        /\ heap[heap[i].car].Atom = <<"y">>
        /\ heap[heap[i].cdr].Tag = TagNumber
        /\ heap[heap[i].cdr].Number = 5

\* C20: no step of the read-evaluate loop changes the interpreter's
\* environment, which stays the list the constructor built, element for
\* element; every Compute starts in it, so a line that looks y up fails
\* with the unbound-name fault even after a line that bound y with pop.
C20_ComputeKeepsEnv ==
    [][/\ f.Env = ConstructedEnv
       /\ f'.Env = f.Env
       /\ Elems(f.Env)' = Elems(f.Env)
       /\ (Idle /\ frames' # <<>> =>
             frames' = <<[comp |-> obj, env |-> ConstructedEnv]>>)
       /\ (f.input = ProgLookupY /\ Running /\ Len(frames) = 1 =>
             fault' = UnboundFault)]_vars

\* The line (y) has failed with the unbound-name fault as the second line,
\* after the line (5 $y y), which bound y to 5 and left 5 on the stack.
C20_Witness ==
    /\ f.input = ProgLookupY
    /\ lines = 2
    /\ fault = UnboundFault
    /\ BoundYTo5
    /\ StackIsNumber(5)
    /\ f.Env = ConstructedEnv

(***************************************************************************)
(* C21.  Bindings made while a closure body runs.                          *)
(***************************************************************************)
ProgTwice == <<"(", "1", " ", "$", "a", " ", "(", "a", " ", "5", " ", "$", "a", " ", "a", ")", " ", "$", "g", " ", "g", " ", "g", " ", "a", ")">>
ProgBodyBinds == <<"(", "(", "7", " ", "$", "z", ")", " ", "$", "h", " ", "h", " ", "z", ")">>

\* The step is the return of the innermost running call.
Returning == fault = NoFault /\ frames # <<>> /\ TopFrame.comp = f.nil

\* The step is a run of pop in the body of a closure, and it succeeds.
PopRunsInBody ==
    Running /\ Len(frames) >= 2 /\ CurPrim = "primPop" /\ fault' = NoFault

\* The Numbers on the stack, the top first.
StackNumbers == [i \in 1..StackDepth |-> heap[Elems(f.Stack)[i]].Number]

\* C21: pop in the body of a closure changes the environment of that
\* invocation alone: the calls beneath it keep their environments, every
\* Closure keeps the environment it holds, element for element, and the
\* return of the invocation leaves its caller the environment it had.  So
\* the body (a 5 $a a), created while a was 1, pushes 1 and 5 at the first
\* and at the second invocation, a is still 1 for the caller after both,
\* and z bound in the body of h is unbound for the caller of h.
C21_BodyBindingsAreLocal ==
    [][/\ (Returning =>
              /\ frames' = SubSeq(frames, 1, Len(frames) - 1)
              /\ f' = f
              /\ heap' = heap
              /\ fault' = NoFault)
       /\ (PopRunsInBody =>
              /\ \A i \in 1..(Len(frames) - 1) : frames'[i] = frames[i]
              /\ frames'[Len(frames)].env # TopFrame.env
              /\ heap'[frames'[Len(frames)].env].cdr = TopFrame.env
              /\ HeapKept
              /\ \A v \in 1..Len(heap) :
                    heap[v].Tag = TagClosure =>
                        /\ heap'[v].env = heap[v].env
                        /\ Elems(heap[v].env)' = Elems(heap[v].env))
       /\ (f'.input = ProgTwice /\ FirstCycleDone' =>
              StackNumbers' = <<1, 5, 1, 5, 1>>)
       /\ (f'.input = ProgBodyBinds /\ lines' = 1 /\ Len(log') = 1 =>
              /\ ~FirstCycleDone'
              /\ fault' \in {NoFault, UnboundFault})]_vars

\* The closure of (a 5 $a a) is invoked the second time, after its first
\* invocation bound a to 5 and pushed 1 and 5: its first item a is about to
\* resolve to 1, while the caller's a is 1 as well.
C21_Witness ==
    /\ f.input = ProgTwice
    /\ Len(frames) = 2
    /\ Running
    /\ heap[CurCmd].Tag = TagAtom
    /\ heap[CurCmd].Atom = <<"a">>
    /\ ListLen(TopFrame.comp) = 6
    /\ StackDepth = 2
    /\ StackNumbers = <<5, 1>>
    /\ CurVal # NULL
    /\ heap[CurVal].Number = 1
    /\ heap[Binding(frames[1].env, CurCmd)].Number = 1

(***************************************************************************)
(* C22.  SetReader and the read-ahead queue.                               *)
(***************************************************************************)
\* The step is a SetReader; the step is a Read.
SetReaderRuns == lines' = lines + 1
ReadRuns == Len(log') = Len(log) + 1

\* C22: SetReader replaces the buffer and puts the cursor at 0 and changes
\* nothing else: the read-ahead queue, the stack, the environment, the
\* intern table and every object stay.  A Read that finds the queue
\* non-empty, the first Read of a new buffer included, returns the front of
\* the queue and leaves the buffer and the cursor alone; so after ^x was
\* read once, the Reads of the next buffer () return x, then push, and only
\* then the Nil read from the start of the new buffer.
C22_SetReaderKeepsQueue ==
    [][/\ (SetReaderRuns =>
              /\ f'.pos = 0
              /\ f' = [f EXCEPT !.input = f'.input, !.pos = 0]
              /\ f'.readStack = f.readStack
              /\ heap' = heap
              /\ fault' = fault
              /\ out' = out)
       /\ (ReadRuns /\ f.readStack # NULL =>
              /\ fault' = NoFault
              /\ log'[Len(log')].queued
              /\ log'[Len(log')].ret = heap[f.readStack].car
              /\ f' = [f EXCEPT !.readStack = heap[f.readStack].cdr]
              /\ heap' = heap)
       /\ (ReadRuns /\ f.readStack = NULL =>
              /\ ~log'[Len(log')].queued
              /\ log'[Len(log')].from = f.pos
              /\ f'.input = f.input)
       /\ ((f'.input = InputEmptyList /\ Len(log') = 3
               /\ log'[1].queued /\ log'[2].queued) =>
              /\ lines' >= 2
              /\ log'[1].pos = 0
              /\ log'[2].ret = f'.AtomPush \/ log'[2].ret = f'.AtomPop
              /\ log'[2].pos = 0
              /\ ~log'[3].queued
              /\ log'[3].from = 0
              /\ log'[3].ret = f'.nil
              /\ log'[3].pos = 2)]_vars

\* ^x was read once and the buffer replaced by (): the three Reads of the
\* new buffer returned x and push from the queue, then Nil from the buffer.
C22_Witness ==
    /\ lines = 2
    /\ f.input = InputEmptyList
    /\ Len(log) = 3
    /\ log[1].queued
    /\ log[1].from = 0
    /\ log[1].pos = 0
    /\ IsScalar(log[1].ret, <<"x">>)
    /\ log[2].queued
    /\ log[2].ret = f.AtomPush
    /\ ~log[3].queued
    /\ log[3].ret = f.nil
    /\ log[3].pos = 2
    /\ f.readStack = NULL

====
